---- MODULE Spec2Model ----
(***************************************************************************)
(* Aether: the local-service client layer.                                 *)
(*                                                                         *)
(*   BrainClient            (services/BrainClient.ts, src/unnamed/part_000)*)
(*   doHealthCheck monitor  (extension.ts, src/extension/src/utils/        *)
(*                           config.ts lines 172-206)                      *)
(*                                                                         *)
(* The specifications share the variables:                                 *)
(*   SpecMonitor   healthCheck calls with port discovery, driven by the    *)
(*                 periodic doHealthCheck and the sidebar's own check;     *)
(*   Spec          request dispatch: tracked / fire-and-forget / pull      *)
(*                 exchanges, the _vibeRequest slot and abort();           *)
(*   SpecEndpoint  request dispatch while discovery replaces the endpoint; *)
(*   SpecResponse  the classification of one completed response;           *)
(*   SpecPull      one pullModel exchange and its event stream;            *)
(*   SpecChunks    the same, the stream cut at every byte;                 *)
(*   SpecOverlap   two periodic doHealthCheck calls in progress at once;   *)
(*   SpecSidebar   SidebarProvider.handleVibe, the stop message and the    *)
(*                 webview's busy lock (src/unnamed/part_002);             *)
(*   SpecDownload  SidebarProvider._pullModel around one pullModel call.   *)
(***************************************************************************)
EXTENDS Integers, Sequences, FiniteSets, TLC

VARIABLES
    baseUrl,        \* BrainClient._baseUrl, as the parts new URL() yields
    calls,          \* the healthCheck() calls in progress, by call slot
    failCount,      \* extension.ts: let failCount
    wasOnline,      \* extension.ts: let wasOnline
    posted,         \* the last sidebarProvider.updateBrainStatus(online) of extension.ts
    initialCheck,   \* TRUE until the initial doHealthCheck().then(...) has run
    falseRun,       \* history: healthCheck results of false processed since the last true
    vibeRequest,    \* BrainClient._vibeRequest: a handle, or NoRequest (null)
    requests,       \* the http.ClientRequest objects, by handle
    response,       \* one completed response of _makeRequest: status, body, result
    pull,           \* one pullModel exchange: its stream, buffer, lastStatus, sink
    sidebar,        \* SidebarProvider's handleVibe and _pullModel calls, the webview
    lastEvent       \* history: the handler that ran in the last step

vars == <<baseUrl, calls, failCount, wasOnline, posted, initialCheck, falseRun,
          vibeRequest, requests, response, pull, sidebar, lastEvent>>

monitorVars == <<calls, failCount, wasOnline, posted, initialCheck, falseRun>>
dispatchVars == <<vibeRequest, requests>>
ingestVars == <<response, pull>>

----------------------------------------------------------------------------
(* Program constants.                                                      *)

\* extension.ts: const MAX_FAILS = 3
MAX_FAILS == 3

\* healthCheck: parseInt(base.port || "8420", 10); _makeRequest: url.port || 8420
DEFAULT_PORT == 8420

\* healthCheck: for (let p = basePort; p < basePort + 10; p++)
SCAN_SPAN == 10

----------------------------------------------------------------------------
(* Bounds of the model.                                                    *)

\* The Brain answers ok only on ports up to this one.
MaxOkPort == 8422

\* No new periodic check is started once failCount has reached this value.
MaxFailCount == 5

\* http.ClientRequest objects that may be live at once.
MaxLive == 2

\* handleVibe calls in one run of the sidebar specification.
MaxRuns == 2

\* Clicks of the webview's stop button in one run of the sidebar specification.
MaxStops == 1

\* Discovery probes (a baseOverride) are issued for this many ports above the
\* base port in the dispatch specification.
MaxOverride == 1

----------------------------------------------------------------------------
(* The endpoint.                                                           *)

\* URL.port of a URL that names no port (or the scheme's default one): "".
NoPort == 0

\* The configured aether.brainServerUrl values the model starts from.
ConfiguredUrls ==
    { [protocol |-> "http:", hostname |-> "127.0.0.1", port |-> p] :
        p \in {NoPort, DEFAULT_PORT} }

\* The default aether.brainServerUrl: "http://127.0.0.1:8420".
DefaultUrl == [protocol |-> "http:", hostname |-> "127.0.0.1", port |-> DEFAULT_PORT]

\* url.port || 8420: the port a request to `url` connects to.
RequestPort(url) == IF url.port = NoPort THEN DEFAULT_PORT ELSE url.port

\* parseInt(base.port || "8420", 10)
BasePort(url) == IF url.port = NoPort THEN DEFAULT_PORT ELSE url.port

\* `${base.protocol}//${base.hostname}:${p}`
TryUrl(base, p) == [protocol |-> base.protocol, hostname |-> base.hostname, port |-> p]

----------------------------------------------------------------------------
(* Requests: _makeRequest, _fetchTracked, _fire, pullModel, abort.         *)

\* The handles of the http.ClientRequest objects; a handle is free again once its
\* request can emit no more events and _vibeRequest does not hold it.
Handles == 1..MaxLive

\* this._vibeRequest = null
NoRequest == 0

FreeRequest ==
    [kind |-> "free", target |-> 0, override |-> FALSE, phase |-> "closed",
     promise |-> "none", errQueued |-> FALSE, cancelled |-> FALSE]

\* http.request(options, ...); req.write(payload); req.end(): the request is sent
\* to `target` and its caller's promise is pending.
\*   override   the request was given a baseOverride (a discovery probe)
\*   phase      sent: no response yet; receiving: the response callback has run and
\*              the body is arriving; closed: the socket is destroyed or done
\*   errQueued  the socket was destroyed before a response: 'error' will be emitted
\*   cancelled  history: abort() destroyed this request
NewRequest(kind, target) ==
    [kind |-> kind, target |-> target, override |-> FALSE, phase |-> "sent",
     promise |-> "pending", errQueued |-> FALSE, cancelled |-> FALSE]

\* resolve(...) / reject(...): a promise settles once; later calls do nothing.
Settle(r, how) == IF r.promise = "pending" THEN [r EXCEPT !.promise = how] ELSE r

\* What a handler did to the promise of `r`, which it leaves as `how`: how it
\* settled, or "none" when it was settled before.
Settled(r, how) == IF r.promise = "pending" THEN how ELSE "none"

\* Faulty variant: a completion of a request the slot does not hold is discarded.
SettleIfInSlot(r, h, slot, how) == IF slot = h THEN Settle(r, how) ELSE r

\* The handlers of a request settle with the resolve and reject of their own
\* call's Promise executor, passed to _makeRequest as parameters (pullModel's
\* handlers close over theirs): whatever the slot holds, request `h` settles its
\* own caller.
SettleOwn(r, h, slot, how) == Settle(r, how)

\* Faulty variant: destroy() that leaves the connection open.
DestroyNothing(r) == r

\* req.destroy(): the socket is destroyed; before a response the request will emit
\* 'error' (socket hang up), after it the response is aborted and nothing is emitted
\* to the listeners this code registers.
Destroy(r) ==
    IF r.phase = "closed" THEN r
    ELSE [r EXCEPT !.phase = "closed", !.errQueued = (r.phase = "sent")]

\* Faulty variant: a completion leaves the slot as it is.
ClearNever(slot, h) == slot

\* Faulty variant: a completion clears the slot whatever it holds.
ClearAlways(slot, h) == NoRequest

\* if (this._vibeRequest === req) { this._vibeRequest = null; }
ClearIfSame(slot, h) == IF slot = h THEN NoRequest ELSE slot

\* _fetchTracked: this._vibeRequest = req
FetchTrackedSlot(slot, h) == h

\* Faulty variant: _fire stores its request as _fetchTracked does.
FireSlotStored(slot, h) == h

\* _fire: the request is not stored
FireSlot(slot, h) == slot

\* The res 'end' handler of _makeRequest: status >= 400 rejects, a body that parses
\* resolves, any other rejects.
EndOutcome(status, body) ==
    IF status >= 400 THEN [how |-> "rejected", reason |-> "remote"]
    ELSE IF body = "json" THEN [how |-> "resolved", reason |-> "value"]
    ELSE [how |-> "rejected", reason |-> "invalid"]

\* The res 'end' handler of pullModel: resolves whatever the status code is.
PullEndOutcome(status, body) == [how |-> "resolved", reason |-> "value"]

\* Faulty variant: the 'timeout' handler rejects and leaves the connection open.
TimeoutNoDestroy(r) == Settle(r, "rejected")

\* The 'timeout' handler's effect on the request: req.destroy(); reject(...)
TimeoutRequest(r) == Settle(Destroy(r), "rejected")

\* Faulty variant: abort() without its null check: destroy() of null throws.
AbortUnguarded(slot, reqs) ==
    IF slot # NoRequest
    THEN [slot |-> NoRequest,
          reqs |-> [reqs EXCEPT ![slot] = [Destroy(reqs[slot]) EXCEPT !.cancelled = TRUE]],
          ret |-> "none"]
    ELSE [slot |-> slot, reqs |-> reqs, ret |-> "threw"]

\* Faulty variant: abort() destroys every tracked request, not only the one in the slot.
AbortAllTracked(slot, reqs) ==
    IF slot # NoRequest
    THEN [slot |-> NoRequest,
          reqs |-> [h \in DOMAIN reqs |->
                      IF reqs[h].kind = "tracked"
                      THEN [Destroy(reqs[h]) EXCEPT !.cancelled = TRUE] ELSE reqs[h]],
          ret |-> "none"]
    ELSE [slot |-> slot, reqs |-> reqs, ret |-> "none"]

\* Faulty variant: abort() destroys every request in flight.
AbortAllRequests(slot, reqs) ==
    IF slot # NoRequest
    THEN [slot |-> NoRequest,
          reqs |-> [h \in DOMAIN reqs |->
                      IF reqs[h].kind # "free"
                      THEN [Destroy(reqs[h]) EXCEPT !.cancelled = TRUE] ELSE reqs[h]],
          ret |-> "none"]
    ELSE [slot |-> slot, reqs |-> reqs, ret |-> "none"]

\* abort(): if (this._vibeRequest) { this._vibeRequest.destroy(); this._vibeRequest = null; }
AbortHandler(slot, reqs) ==
    IF slot # NoRequest
    THEN [slot |-> NoRequest,
          reqs |-> [reqs EXCEPT ![slot] = [Destroy(reqs[slot]) EXCEPT !.cancelled = TRUE]],
          ret |-> "none"]
    ELSE [slot |-> slot, reqs |-> reqs, ret |-> "none"]

\* A request that can emit no more events and that _vibeRequest does not hold is
\* garbage: its handle is free.
Collect(reqs, slot) ==
    [h \in Handles |->
        IF reqs[h].phase = "closed" /\ ~reqs[h].errQueued /\ slot # h
        THEN FreeRequest ELSE reqs[h]]

\* The lowest free handle, or 0.
FreeHandle ==
    IF \E h \in Handles : requests[h].kind = "free"
    THEN CHOOSE h \in Handles : requests[h].kind = "free"
                                  /\ \A g \in Handles : requests[g].kind = "free" => h <= g
    ELSE 0

\* The responses the Brain can complete.
Statuses == {200, 404}
Bodies == {"json", "text"}

\* The operations that go through _fire.
FirePaths == {"/health", "/agents", "/models", "/model", "/models/available"}

\* The ports a _fire request goes to: the endpoint's, or a discovery probe's override.
FireTargets ==
    {RequestPort(baseUrl)} \cup (BasePort(baseUrl) + 1)..(BasePort(baseUrl) + MaxOverride)

\* The history record of a step of request `h` (record `r` before the step).
ReqEvent(ev, h, r, info, ret) ==
    [ev |-> ev, id |-> "none", info |-> info, ret |-> ret,
     port |-> r.target, phase |-> r.phase, base |-> 0,
     was |-> wasOnline, fails |-> failCount,
     req |-> h, kind |-> r.kind, slot |-> vibeRequest, cancelled |-> r.cancelled]

InitEvent ==
    [ev |-> "init", id |-> "none", info |-> "none", ret |-> "none",
     port |-> 0, phase |-> "idle", base |-> 0, was |-> FALSE, fails |-> 0,
     req |-> 0, kind |-> "none", slot |-> 0, cancelled |-> FALSE]

\* sendVibe -> _fetchTracked("POST", "/vibe", ...)
SendVibe ==
    /\ FreeHandle # 0
    /\ LET h == FreeHandle
           r == NewRequest("tracked", RequestPort(baseUrl))
           slot == FetchTrackedSlot(vibeRequest, h)
       IN /\ vibeRequest' = slot
          /\ requests' = Collect([requests EXCEPT ![h] = r], slot)
          /\ lastEvent' = ReqEvent("sendVibe", h, r, "/vibe", "none")
    /\ UNCHANGED <<baseUrl, monitorVars, ingestVars, sidebar>>

\* listAgents, listModels, setModel, catalogModels, and healthCheck's probes -> _fire
Fire(path, target) ==
    /\ FreeHandle # 0
    /\ target \in FireTargets
    /\ target # RequestPort(baseUrl) => path = "/health"
    /\ LET h == FreeHandle
           r == [NewRequest("fire", target) EXCEPT !.override = (target # RequestPort(baseUrl))]
           slot == FireSlot(vibeRequest, h)
       IN /\ vibeRequest' = slot
          /\ requests' = Collect([requests EXCEPT ![h] = r], slot)
          /\ lastEvent' = ReqEvent("fire", h, r, path, "none")
    /\ UNCHANGED <<baseUrl, monitorVars, ingestVars, sidebar>>

\* pullModel: its own http.request, never stored in _vibeRequest
PullModel ==
    /\ FreeHandle # 0
    /\ LET h == FreeHandle
           r == NewRequest("pull", RequestPort(baseUrl))
       IN /\ requests' = [requests EXCEPT ![h] = r]
          /\ lastEvent' = ReqEvent("pullModel", h, r, "/models/pull", "none")
    /\ UNCHANGED <<baseUrl, vibeRequest, monitorVars, ingestVars, sidebar>>

\* The response callback of http.request: the status line and headers have arrived.
Response(h) ==
    /\ requests[h].kind # "free"
    /\ requests[h].phase = "sent"
    /\ requests' = [requests EXCEPT ![h].phase = "receiving"]
    /\ lastEvent' = ReqEvent("response", h, requests[h], "none", "none")
    /\ UNCHANGED <<baseUrl, vibeRequest, monitorVars, ingestVars, sidebar>>

\* res.on("end"): the response is complete.
ResponseEnd(h, status, body) ==
    /\ requests[h].kind # "free"
    /\ requests[h].phase = "receiving"
    /\ LET r == requests[h]
           out == IF r.kind = "pull" THEN PullEndOutcome(status, body)
                  ELSE EndOutcome(status, body)
           slot == IF r.kind = "pull" THEN vibeRequest ELSE ClearIfSame(vibeRequest, h)
           done == [SettleOwn(r, h, vibeRequest, out.how) EXCEPT !.phase = "closed"]
       IN /\ vibeRequest' = slot
          /\ requests' = Collect([requests EXCEPT ![h] = done], slot)
          /\ lastEvent' = ReqEvent("end", h, r, out.reason, Settled(r, done.promise))
    /\ UNCHANGED <<baseUrl, monitorVars, ingestVars, sidebar>>

\* req.on("error"): a connection failure, or the 'error' a destroyed socket emits.
RequestError(h) ==
    /\ requests[h].kind # "free"
    /\ requests[h].phase # "closed" \/ requests[h].errQueued
    /\ LET r == requests[h]
           slot == IF r.kind = "pull" THEN vibeRequest ELSE ClearIfSame(vibeRequest, h)
           done == [SettleOwn(r, h, vibeRequest, "rejected")
                       EXCEPT !.phase = "closed", !.errQueued = FALSE]
       IN /\ vibeRequest' = slot
          /\ requests' = Collect([requests EXCEPT ![h] = done], slot)
          /\ lastEvent' = ReqEvent("error", h, r, "network", Settled(r, done.promise))
    /\ UNCHANGED <<baseUrl, monitorVars, ingestVars, sidebar>>

\* req.on("timeout"): the socket was idle for timeoutMs.
Timeout(h) ==
    /\ requests[h].kind # "free"
    /\ requests[h].phase # "closed"
    /\ LET r == requests[h]
           slot == IF r.kind = "pull" THEN vibeRequest ELSE ClearIfSame(vibeRequest, h)
       IN /\ vibeRequest' = slot
          /\ requests' = Collect([requests EXCEPT ![h] = TimeoutRequest(r)], slot)
          /\ lastEvent' = ReqEvent("timeout", h, r, "timeout", Settled(r, "rejected"))
    /\ UNCHANGED <<baseUrl, monitorVars, ingestVars, sidebar>>

\* The connection closes in the middle of the response body: the response is
\* aborted, 'end' is never emitted and no listener of this code runs.
ResponseAborted(h) ==
    /\ requests[h].kind # "free"
    /\ requests[h].phase = "receiving"
    /\ requests' = Collect([requests EXCEPT ![h].phase = "closed"], vibeRequest)
    /\ lastEvent' = ReqEvent("aborted", h, requests[h], "none", "none")
    /\ UNCHANGED <<baseUrl, vibeRequest, monitorVars, ingestVars, sidebar>>

\* abort(): the sidebar's "stop" message, and deactivate().
Abort ==
    /\ LET a == AbortHandler(vibeRequest, requests)
           h == vibeRequest
       IN /\ vibeRequest' = a.slot
          /\ requests' = Collect(a.reqs, a.slot)
          /\ lastEvent' = IF h = NoRequest
                          THEN ReqEvent("abort", 0, FreeRequest, "none", a.ret)
                          ELSE ReqEvent("abort", h, requests[h], "none", a.ret)
    /\ UNCHANGED <<baseUrl, monitorVars, ingestVars, sidebar>>

----------------------------------------------------------------------------
(* SidebarProvider.handleVibe, the message handlers and the webview's lock. *)

Runs == 1..MaxRuns

\* A handleVibe call.
\*   state    none: not called; vibe: at `await this._brain.sendVibe(...)`;
\*            agent: at `await vscode.commands.executeCommand("aether.sendToAgent", ...)`;
\*            done: returned; hung: awaiting a request that can emit no more events
\*   req      the handle of its sendVibe request
\*   origin   webview: the handler of the "vibe" message; command: aether.sendVibe
\*   posted   history: the messages it has posted
NoRun == [state |-> "none", req |-> 0, origin |-> "none", posted |-> << >>]

\* The sidebar before anything is submitted.
\*   busy     the webview's `var busy`
\*   toExt    vs.postMessage(...): messages to the extension, not yet delivered
\*   toView   webview.postMessage(...): messages to the webview, not yet delivered
\*   runs     the handleVibe calls
\*   stops    history: clicks of the stop button
\*   pullEnd  the message with which _pullModel ended: none, pullDone or pullFail
NoSidebar ==
    [busy |-> 0, toExt |-> << >>, toView |-> << >>, runs |-> [g \in Runs |-> NoRun],
     stops |-> 0, pullEnd |-> "none"]

\* A message to the webview; `run` is history: the handleVibe call that posted it.
Msg(command, on, run) == [command |-> command, on |-> on, run |-> run]

\* this._post(m) in handleVibe call `g`
Post(sb, g, m) ==
    [sb EXCEPT !.toView = Append(@, m), !.runs[g].posted = Append(@, m)]

\* The lowest handleVibe call not made yet, or 0.
FreeRun(sb) ==
    IF \E g \in Runs : sb.runs[g].state = "none"
    THEN CHOOSE g \in Runs : /\ sb.runs[g].state = "none"
                             /\ \A f \in Runs : sb.runs[f].state = "none" => g <= f
    ELSE 0

\* The generations submitted so far: handleVibe calls and "vibe" messages on their way.
Submitted(sb) ==
    Cardinality({g \in Runs : sb.runs[g].state # "none"})
        + Len(SelectSeq(sb.toExt, LAMBDA m : m = "vibe"))

\* The history record of a step of the sidebar or the webview.
SideEvent(ev) == [InitEvent EXCEPT !.ev = ev]

\* handleVibe up to its first await: this._post({command: "loading", on: true});
\* await this._brain.sendVibe(...).  A call that still awaits a request whose
\* handle is free again awaits a promise that will never settle.
HandleVibeEnter(sb, g, h, origin) ==
    LET held == [sb EXCEPT !.runs = [f \in Runs |->
                    IF sb.runs[f].state = "vibe" /\ sb.runs[f].req = h
                    THEN [sb.runs[f] EXCEPT !.state = "hung"] ELSE sb.runs[f]]]
        entered == [held EXCEPT !.runs[g] = [state |-> "vibe", req |-> h,
                                              origin |-> origin, posted |-> << >>]]
    IN Post(entered, g, Msg("loading", TRUE, g))

\* handleVibe(vibe) called with the sidebar as `sb`: sendVibe as in SendVibe.
HandleVibe(sb, origin) ==
    /\ FreeHandle # 0
    /\ FreeRun(sb) # 0
    /\ LET h == FreeHandle
           r == NewRequest("tracked", RequestPort(baseUrl))
           slot == FetchTrackedSlot(vibeRequest, h)
       IN /\ vibeRequest' = slot
          /\ requests' = Collect([requests EXCEPT ![h] = r], slot)
          /\ lastEvent' = ReqEvent("sendVibe", h, r, "/vibe", "none")
          /\ sidebar' = HandleVibeEnter(sb, FreeRun(sb), h, origin)
    /\ UNCHANGED <<baseUrl, monitorVars, response, pull>>

\* The handleVibe calls whose sendVibe promise was settled by the last step: their
\* continuation runs before any other handler.
Resuming ==
    {g \in Runs : /\ sidebar.runs[g].state = "vibe"
                  /\ lastEvent.kind = "tracked"
                  /\ lastEvent.req = sidebar.runs[g].req
                  /\ lastEvent.ret \in {"resolved", "rejected"}}

Quiescent == Resuming = {}

\* webview go(): if (!t || busy) return; lock(); vs.postMessage({command: "vibe", text: t})
WebviewGo ==
    /\ Quiescent
    /\ sidebar.busy = 0
    /\ Submitted(sidebar) < MaxRuns
    /\ sidebar' = [sidebar EXCEPT !.busy = 1, !.toExt = Append(@, "vibe")]
    /\ lastEvent' = SideEvent("go")
    /\ UNCHANGED <<baseUrl, monitorVars, dispatchVars, response, pull>>

\* A click on bStop, shown with the loader between lock() and unlock():
\* vs.postMessage({command: "stop"})
WebviewStop ==
    /\ Quiescent
    /\ sidebar.busy = 1
    /\ sidebar.stops < MaxStops
    /\ sidebar' = [sidebar EXCEPT !.toExt = Append(@, "stop"), !.stops = @ + 1]
    /\ lastEvent' = SideEvent("stop")
    /\ UNCHANGED <<baseUrl, monitorVars, dispatchVars, response, pull>>

\* The command aether.sendVibe: if (input) { await sidebarProvider.handleVibe(input); }
CommandVibe ==
    /\ Quiescent
    /\ Submitted(sidebar) < MaxRuns
    /\ HandleVibe(sidebar, "command")

\* onDidReceiveMessage, case "vibe": await this.handleVibe(m.text)
OnVibeMessage ==
    /\ Quiescent
    /\ sidebar.toExt # << >>
    /\ Head(sidebar.toExt) = "vibe"
    /\ HandleVibe([sidebar EXCEPT !.toExt = Tail(@)], "webview")

\* onDidReceiveMessage, case "stop": this._brain.abort(); this._post({command: "stopped"})
OnStopMessage ==
    /\ Quiescent
    /\ sidebar.toExt # << >>
    /\ Head(sidebar.toExt) = "stop"
    /\ LET a == AbortHandler(vibeRequest, requests)
           h == vibeRequest
       IN /\ vibeRequest' = a.slot
          /\ requests' = Collect(a.reqs, a.slot)
          /\ lastEvent' = IF h = NoRequest
                          THEN ReqEvent("abort", 0, FreeRequest, "none", a.ret)
                          ELSE ReqEvent("abort", h, requests[h], "none", a.ret)
    /\ sidebar' = [sidebar EXCEPT !.toExt = Tail(@),
                                  !.toView = Append(@, Msg("stopped", FALSE, 0))]
    /\ UNCHANGED <<baseUrl, monitorVars, response, pull>>

\* What sendVibe's promise resolved with: a JSON object, or JSON null.
VibeValues == {"object", "null"}

\* handleVibe after `await this._brain.sendVibe(...)`:
\*   try { post result (r.prompt of null throws); if (autoSend) await executeCommand(...) }
\*   catch { post err } finally { post loading off }
HandleVibeResume(sb, g, how, value, autoSend) ==
    IF how = "resolved" /\ value = "object"
    THEN LET shown == Post(sb, g, Msg("result", FALSE, g))
         IN IF autoSend THEN [shown EXCEPT !.runs[g].state = "agent"]
            ELSE [Post(shown, g, Msg("loading", FALSE, g)) EXCEPT !.runs[g].state = "done"]
    ELSE [Post(Post(sb, g, Msg("err", FALSE, g)), g, Msg("loading", FALSE, g))
             EXCEPT !.runs[g].state = "done"]

\* The continuation of handleVibe when its sendVibe promise has settled.
VibeSettled(value, autoSend) ==
    /\ \E g \in Resuming :
          sidebar' = HandleVibeResume(sidebar, g, lastEvent.ret, value, autoSend)
    /\ lastEvent' = SideEvent("handleVibe")
    /\ UNCHANGED <<baseUrl, monitorVars, dispatchVars, response, pull>>

\* handleVibe after `await vscode.commands.executeCommand("aether.sendToAgent", r.prompt)`:
\* a rejection goes to the same catch block, then finally.
HandleVibeAgent(sb, g, ok) ==
    LET caught == IF ok THEN sb ELSE Post(sb, g, Msg("err", FALSE, g))
    IN [Post(caught, g, Msg("loading", FALSE, g)) EXCEPT !.runs[g].state = "done"]

\* executeCommand("aether.sendToAgent", ...) settles: the command's handler awaits
\* the clipboard write and the editor's command list outside its own try block.
AgentSettled(g, ok) ==
    /\ Quiescent
    /\ sidebar.runs[g].state = "agent"
    /\ sidebar' = HandleVibeAgent(sidebar, g, ok)
    /\ lastEvent' = SideEvent("agent")
    /\ UNCHANGED <<baseUrl, monitorVars, dispatchVars, response, pull>>

\* The webview's message handler: result, err, stopped and loading-off call unlock().
Unlocks(m) ==
    \/ m.command \in {"result", "err", "stopped"}
    \/ m.command = "loading" /\ ~m.on

\* window.addEventListener("message", ...) with the next message of the extension.
WebviewMessage ==
    /\ Quiescent
    /\ sidebar.toView # << >>
    /\ sidebar' = [sidebar EXCEPT !.toView = Tail(@),
                                  !.busy = IF Unlocks(Head(sidebar.toView)) THEN 0 ELSE @]
    /\ lastEvent' = SideEvent("message")
    /\ UNCHANGED <<baseUrl, monitorVars, dispatchVars, response, pull>>

\* The events of the tracked requests, each before any other handler's turn.
VibeResponse(h) == Quiescent /\ Response(h)

VibeEnd(h, status, body) == Quiescent /\ ResponseEnd(h, status, body)

VibeError(h) == Quiescent /\ RequestError(h)

VibeTimeout(h) == Quiescent /\ Timeout(h)

VibeAborted(h) == Quiescent /\ ResponseAborted(h)

----------------------------------------------------------------------------
(* Text: response bodies and JSON.parse.                                   *)

\* A text is a sequence of characters.  A character is Char(c); an object member
\* with its name, its value and its separating comma counts as one character,
\* Member(n, t, v): the member "n" whose value is the JSON `t` literal v.
Char(c) == [name |-> "char", type |-> "char", value |-> c]
Member(n, t, v) == [name |-> n, type |-> t, value |-> v]

\* The characters String.prototype.trim removes and JSON.parse skips.
WhiteSpace == {Char(" "), Char("\n")}

Min(a, b) == IF a <= b THEN a ELSE b

\* s.slice(0, n)
Slice(s, n) == SubSeq(s, 1, Min(n, Len(s)))

\* s.slice(n)
SliceFrom(s, n) == SubSeq(s, n + 1, Len(s))

\* s.startsWith(prefix)
StartsWith(s, prefix) == Len(s) >= Len(prefix) /\ SubSeq(s, 1, Len(prefix)) = prefix

\* s.trim(): the white space at both ends is removed.
\* The number of white-space characters s starts with, and ends with.
Leading(s) ==
    CHOOSE k \in 0..Len(s) :
        /\ k = Len(s) \/ s[k + 1] \notin WhiteSpace
        /\ \A i \in 1..k : s[i] \in WhiteSpace

Trailing(s) ==
    CHOOSE k \in 0..Len(s) :
        /\ k = Len(s) \/ s[Len(s) - k] \notin WhiteSpace
        /\ \A i \in (Len(s) - k + 1)..Len(s) : s[i] \in WhiteSpace

TrimStart(s) == SubSeq(s, Leading(s) + 1, Len(s))

TrimEnd(s) == SubSeq(s, 1, Len(s) - Trailing(s))

Trim(s) == TrimEnd(TrimStart(s))

\* What JSON.parse(text) gives: ok = FALSE when it throws a SyntaxError; else the
\* kind of the value and, for an object, its members.
ParseError == [ok |-> FALSE, kind |-> "none", members |-> << >>]

IsMember(c) == c.name # "char"

JsonParse(text) ==
    LET t == Trim(text)
        inner == SelectSeq(SubSeq(t, 2, Len(t) - 1), LAMBDA c : c \notin WhiteSpace)
    IN IF t = <<Char("null")>> THEN [ok |-> TRUE, kind |-> "null", members |-> << >>]
       ELSE IF /\ Len(t) >= 2 /\ t[1] = Char("{") /\ t[Len(t)] = Char("}")
               /\ \A i \in 1..Len(inner) : IsMember(inner[i])
            THEN [ok |-> TRUE, kind |-> "object", members |-> inner]
       ELSE ParseError

\* p.n of a parsed object: its last member named n, or undefined.
Undefined == [name |-> "none", type |-> "undefined", value |-> ""]

RECURSIVE Get(_, _)
Get(members, n) ==
    IF members = << >> THEN Undefined
    ELSE IF members[Len(members)].name = n THEN members[Len(members)]
    ELSE Get(SubSeq(members, 1, Len(members) - 1), n)

\* The truthiness of a member's value: if (v) ..., v || ""
Truthy(v) ==
    CASE v.type = "string" -> v.value # ""
      [] v.type = "number" -> v.value # "0"
      [] OTHER -> FALSE

\* `${v}`: the characters a value contributes to a template string.
ToText(v) == <<Char(v.value)>>

----------------------------------------------------------------------------
(* The classification of a completed response: _makeRequest's 'end' handler.*)

\* let detail = data.slice(0, 300)
DETAIL_CHARS == 300

\* `Invalid JSON: ${data.slice(0, 200)}`
INVALID_CHARS == 200

\* Faulty variant: the remote error never reads the body's detail member.
RemoteDetailRawOnly(data) == Slice(data, DETAIL_CHARS)

\* let detail = data.slice(0, 300);
\* try { const p = JSON.parse(data); if (p.detail) { detail = p.detail; } } catch { }
\* (p.detail of null throws a TypeError, which the catch swallows too)
RemoteDetail(data) ==
    LET p == JsonParse(data)
    IN IF p.ok /\ p.kind = "object" /\ Truthy(Get(p.members, "detail"))
       THEN ToText(Get(p.members, "detail"))
       ELSE Slice(data, DETAIL_CHARS)

\* Faulty variant: the invalid-response error carries as much of the body as a remote one.
InvalidDetailLong(data) == Slice(data, DETAIL_CHARS)

\* data.slice(0, 200)
InvalidDetail(data) == Slice(data, INVALID_CHARS)

NoValue == ParseError

\* The 'end' handler of _makeRequest on status code `status` and body `data`:
\* what it does to the promise, with the Error's kind and text or the resolved value.
MakeRequestEnd(status, data) ==
    IF status >= 400
    THEN [how |-> "rejected", error |-> "remote", status |-> status,
          detail |-> RemoteDetail(data), value |-> NoValue]
    ELSE IF JsonParse(data).ok
    THEN [how |-> "resolved", error |-> "none", status |-> status,
          detail |-> << >>, value |-> JsonParse(data)]
    ELSE [how |-> "rejected", error |-> "invalid", status |-> status,
          detail |-> InvalidDetail(data), value |-> NoValue]

\* The status codes of the responses the model completes.
ResponseStatuses == {200, 201, 399, 400, 404, 500}

\* What the Brain serialises as a response body: a JSON object with or without a
\* detail string (empty or not), JSON null, or a page that is not JSON; `len` is the
\* length the body is padded to with trailing blanks.
BodyLens ==
    {0} \cup (INVALID_CHARS - 1)..(INVALID_CHARS + 1) \cup (DETAIL_CHARS - 1)..(DETAIL_CHARS + 1)

SentBodies ==
    { [kind |-> k, hasDetail |-> FALSE, detail |-> "", len |-> n] :
          k \in {"object", "null", "html"}, n \in BodyLens }
    \cup { [kind |-> "object", hasDetail |-> TRUE, detail |-> d, len |-> n] :
          d \in {"", "not found"}, n \in BodyLens }

Blanks(n) == [i \in 1..n |-> Char(" ")]

\* The body text of `sent`, as res.on("data") accumulates it.
Encode(sent) ==
    LET core == CASE sent.kind = "object" ->
                       <<Char("{")>>
                       \o (IF sent.hasDetail
                           THEN <<Member("detail", "string", sent.detail)>> ELSE << >>)
                       \o <<Char("}")>>
                  [] sent.kind = "null" -> <<Char("null")>>
                  [] OTHER -> <<Char("<"), Char("h"), Char("1"), Char(">")>>
    IN core \o Blanks(IF sent.len > Len(core) THEN sent.len - Len(core) ELSE 0)

NoResult == [how |-> "none", error |-> "none", status |-> 0, detail |-> << >>, value |-> NoValue]

\* No response under classification.
NoResponse ==
    [status |-> 0, sent |-> [kind |-> "none", hasDetail |-> FALSE, detail |-> "", len |-> 0],
     data |-> << >>, done |-> FALSE, result |-> NoResult]

\* res.on("end") of a response whose body has arrived in full.
ClassifyEnd ==
    /\ response.status # 0
    /\ ~response.done
    /\ response' = [response EXCEPT !.done = TRUE,
                                    !.result = MakeRequestEnd(response.status, response.data)]
    /\ UNCHANGED <<baseUrl, monitorVars, dispatchVars, pull, lastEvent, sidebar>>

----------------------------------------------------------------------------
(* pullModel: the event stream of POST /models/pull.                       *)

\* Event-stream units in one pull stream.
MaxUnits == 2

NL == Char("\n")

\* The literal prefix "data: " and its length: line.startsWith("data: "), line.slice(6)
DataPrefix == <<Char("d"), Char("a"), Char("t"), Char("a"), Char(":"), Char(" ")>>
PREFIX_CHARS == 6

\* The units the Brain writes to the stream:
\*   event      data: {"pct": .., "status": ..}   (either member may be missing)
\*   malformed  data: {"status": "error"          (JSON cut short)
\*   plain      {"detail": "x"}                   (no data: prefix, as an error body)
EventUnit(hasPct, pct, hasStatus, status) ==
    [kind |-> "event", hasPct |-> hasPct, pct |-> pct, hasStatus |-> hasStatus,
     status |-> status]

OtherUnit(kind) ==
    [kind |-> kind, hasPct |-> FALSE, pct |-> "", hasStatus |-> FALSE, status |-> ""]

Units ==
    { EventUnit(TRUE, "10", TRUE, "running"),
      EventUnit(FALSE, "", TRUE, "done"),
      EventUnit(TRUE, "100", TRUE, "success"),
      EventUnit(FALSE, "", TRUE, "error"),
      EventUnit(TRUE, "50", FALSE, ""),
      OtherUnit("malformed"), OtherUnit("plain") }

\* The text of a unit, without its delimiter.
UnitText(u) ==
    CASE u.kind = "event" ->
            DataPrefix \o <<Char("{")>>
            \o (IF u.hasPct THEN <<Member("pct", "number", u.pct)>> ELSE << >>)
            \o (IF u.hasStatus THEN <<Member("status", "string", u.status)>> ELSE << >>)
            \o <<Char("}")>>
      [] u.kind = "malformed" ->
            DataPrefix \o <<Char("{"), Member("status", "string", "error")>>
      [] OTHER -> <<Char("{"), Member("detail", "string", "x"), Char("}")>>

\* The text of a stream: each unit followed by a blank line, the last one only if
\* the stream is `closed`.
RECURSIVE StreamText(_, _)
StreamText(units, closed) ==
    IF units = << >> THEN << >>
    ELSE UnitText(Head(units))
         \o (IF Len(units) > 1 \/ closed THEN <<NL, NL>> ELSE << >>)
         \o StreamText(Tail(units), closed)

\* The streams of at most MaxUnits units.
Streams == UNION { [1..n -> Units] : n \in 0..MaxUnits }

\* Bytes.  The Brain writes the stream as UTF-8 and res 'data' delivers Buffers.
\* The characters of the text model that are ASCII are one byte each and stand
\* for themselves.  WIDE is a status with one two-byte character (e circumflex,
\* the bytes C3 AA); the status member that carries it is two pieces of bytes:
\*   Lead(v)   "status":"pr and the byte C3
\*   Trail(v)  the byte AA and t"
WIDE == "pr%C3%AAt"

Lead(v) == [name |-> "char", type |-> "lead", value |-> v]
Trail(v) == [name |-> "char", type |-> "trail", value |-> v]

\* The bytes of a text.
RECURSIVE Utf8Encode(_)
Utf8Encode(text) ==
    IF text = << >> THEN << >>
    ELSE (IF Head(text) = Member("status", "string", WIDE)
          THEN <<Lead(WIDE), Trail(WIDE)>> ELSE <<Head(text)>>)
         \o Utf8Encode(Tail(text))

\* What Buffer.toString() makes of a byte sequence that does not decode: the
\* replacement character U+FFFD for the first byte of a character cut off at the
\* end of the buffer, and for a continuation byte with no first byte before it.
\*   LostLead(v)   "status":"pr and U+FFFD
\*   LostTrail(v)  U+FFFD and t"
LostLead(v) == [name |-> "char", type |-> "lostlead", value |-> v]
LostTrail(v) == [name |-> "char", type |-> "losttrail", value |-> v]

\* The status that is left of v: each of the two bytes replaced by U+FFFD (EF BF BD).
Garbled(v) == IF v = WIDE THEN "pr%EF%BF%BD%EF%BF%BDt" ELSE v

\* chunk.toString(): each Buffer is decoded on its own.
RECURSIVE ChunkToString(_)
ChunkToString(bytes) ==
    IF \A i \in 1..Len(bytes) : bytes[i].type \notin {"lead", "trail"} THEN bytes
    ELSE LET b == Head(bytes)
         IN IF b.type = "lead" /\ Len(bytes) >= 2 /\ bytes[2] = Trail(b.value)
            THEN <<Member("status", "string", b.value)>>
                 \o ChunkToString(SubSeq(bytes, 3, Len(bytes)))
            ELSE IF b.type = "lead" THEN <<LostLead(b.value)>> \o ChunkToString(Tail(bytes))
            ELSE IF b.type = "trail" THEN <<LostTrail(b.value)>> \o ChunkToString(Tail(bytes))
            ELSE <<b>> \o ChunkToString(Tail(bytes))

\* buffer += text: where the two halves of the status member meet they are one
\* member again, its value with the replacement characters in it.
Concat(buffer, text) ==
    IF /\ buffer # << >> /\ text # << >>
       /\ buffer[Len(buffer)].type = "lostlead" /\ text[1].type = "losttrail"
    THEN SubSeq(buffer, 1, Len(buffer) - 1)
         \o <<Member("status", "string", Garbled(text[1].value))>>
         \o Tail(text)
    ELSE buffer \o text

\* buffer.split("\n\n"): the pieces between the blank lines, at least one.
RECURSIVE Split(_)
Split(s) ==
    LET cuts == {i \in 1..(Len(s) - 1) : s[i] = NL /\ s[i + 1] = NL}
    IN IF cuts = {} THEN <<s>>
       ELSE LET i == CHOOSE c \in cuts : \A d \in cuts : c <= d
            IN <<SubSeq(s, 1, i - 1)>> \o Split(SubSeq(s, i + 2, Len(s)))

\* Faulty variant: a parse failure clears the last known status.
IngestBlockResetOnError(acc, block) ==
    LET line == Trim(block)
        p == JsonParse(SliceFrom(line, PREFIX_CHARS))
        status == Get(p.members, "status")
        pct == Get(p.members, "pct")
        last == IF Truthy(status) THEN status.value ELSE ""
    IN IF ~StartsWith(line, DataPrefix) THEN acc
       ELSE IF ~p.ok THEN [acc EXCEPT !.lastStatus = ""]
       ELSE IF p.kind = "null" THEN acc
       ELSE [lastStatus |-> last,
             sink |-> IF pct.type = "number"
                      THEN Append(acc.sink, [pct |-> pct.value, status |-> last])
                      ELSE acc.sink]

\* Faulty variant: progress is reported before the unit's status is read.
IngestBlockStaleStatus(acc, block) ==
    LET line == Trim(block)
        p == JsonParse(SliceFrom(line, PREFIX_CHARS))
        status == Get(p.members, "status")
        pct == Get(p.members, "pct")
        last == IF Truthy(status) THEN status.value ELSE ""
    IN IF ~StartsWith(line, DataPrefix) THEN acc
       ELSE IF ~p.ok THEN acc
       ELSE IF p.kind = "null" THEN acc
       ELSE [lastStatus |-> last,
             sink |-> IF pct.type = "number"
                      THEN Append(acc.sink, [pct |-> pct.value, status |-> acc.lastStatus])
                      ELSE acc.sink]

\* Faulty variant: a unit without a status leaves the last known status as it is.
IngestBlockKeepsStatus(acc, block) ==
    LET line == Trim(block)
        p == JsonParse(SliceFrom(line, PREFIX_CHARS))
        status == Get(p.members, "status")
        pct == Get(p.members, "pct")
        last == IF Truthy(status) THEN status.value ELSE acc.lastStatus
    IN IF ~StartsWith(line, DataPrefix) THEN acc
       ELSE IF ~p.ok THEN acc
       ELSE IF p.kind = "null" THEN acc
       ELSE [lastStatus |-> last,
             sink |-> IF pct.type = "number"
                      THEN Append(acc.sink, [pct |-> pct.value, status |-> last])
                      ELSE acc.sink]

\* The body of `for (const block of lines)`:
\*   const line = block.trim(); if (!line.startsWith("data: ")) { continue; }
\*   try { const data = JSON.parse(line.slice(6)); lastStatus = data.status || "";
\*         if (onProgress && typeof data.pct === "number") onProgress(data.pct, lastStatus);
\*   } catch { }
\* (data.status of null throws a TypeError, which the catch swallows too)
IngestBlock(acc, block) ==
    LET line == Trim(block)
        p == JsonParse(SliceFrom(line, PREFIX_CHARS))
        status == Get(p.members, "status")
        pct == Get(p.members, "pct")
        last == IF Truthy(status) THEN status.value ELSE ""
    IN IF ~StartsWith(line, DataPrefix) THEN acc
       ELSE IF ~p.ok THEN acc
       ELSE IF p.kind = "null" THEN acc
       ELSE [lastStatus |-> last,
             sink |-> IF pct.type = "number"
                      THEN Append(acc.sink, [pct |-> pct.value, status |-> last])
                      ELSE acc.sink]

RECURSIVE IngestBlocks(_, _)
IngestBlocks(acc, blocks) ==
    IF blocks = << >> THEN acc
    ELSE IngestBlocks(IngestBlock(acc, Head(blocks)), Tail(blocks))

\* Faulty variant: the data handler decodes the piece after the last blank line too.
PullDataEager(st, chunk) ==
    LET lines == Split(Concat(st.buffer, ChunkToString(chunk)))
        acc == IngestBlocks([lastStatus |-> st.lastStatus, sink |-> st.sink], lines)
    IN [buffer |-> lines[Len(lines)], lastStatus |-> acc.lastStatus, sink |-> acc.sink]

\* res.on("data"): buffer += chunk.toString(); lines = buffer.split("\n\n");
\* buffer = lines.pop() || ""; for (const block of lines) ...
PullData(st, chunk) ==
    LET lines == Split(Concat(st.buffer, ChunkToString(chunk)))
        acc == IngestBlocks([lastStatus |-> st.lastStatus, sink |-> st.sink],
                            SubSeq(lines, 1, Len(lines) - 1))
    IN [buffer |-> lines[Len(lines)], lastStatus |-> acc.lastStatus, sink |-> acc.sink]

NoOutcome == [status |-> "none", model |-> "", message |-> ""]

\* Faulty variant: a stream that ends on an unrecognised status is reported as failed.
PullEndStrict(lastStatus, model) ==
    IF lastStatus = "done" \/ lastStatus = "success"
    THEN [status |-> "ok", model |-> model, message |-> ""]
    ELSE [status |-> "error", model |-> "", message |-> "Pull failed"]

\* res.on("end") of pullModel: the value the promise is resolved with.
PullEndHandler(lastStatus, model) ==
    IF lastStatus = "done" \/ lastStatus = "success"
    THEN [status |-> "ok", model |-> model, message |-> ""]
    ELSE IF lastStatus = "error"
    THEN [status |-> "error", model |-> "", message |-> "Pull failed"]
    ELSE [status |-> "ok", model |-> model, message |-> ""]

\* The model a pull is requested for.
Models == {"gemma2:2b"}

\* The status codes of the pull responses.
PullStatuses == {200, 500}

\* No pullModel exchange.
NoPull ==
    [phase |-> "none", model |-> "", http |-> 0, units |-> << >>, closed |-> TRUE,
     rest |-> << >>, buffer |-> << >>, lastStatus |-> "", sink |-> << >>,
     promise |-> "none", outcome |-> NoOutcome]

\* pullModel(model, onProgress) up to req.end(): the request is sent.  `units` and
\* `closed` are what the Brain will answer; `rest` is the bytes not yet delivered.
NewPull(model, http, units, closed) ==
    [phase |-> "sent", model |-> model, http |-> http, units |-> units, closed |-> closed,
     rest |-> Utf8Encode(StreamText(units, closed)), buffer |-> << >>,
     lastStatus |-> "", sink |-> << >>, promise |-> "pending", outcome |-> NoOutcome]

\* The response callback of pullModel: let lastStatus = ""; let buffer = "".
PullResponse ==
    /\ pull.phase = "sent"
    /\ pull' = [pull EXCEPT !.phase = "receiving", !.lastStatus = "", !.buffer = << >>]
    /\ UNCHANGED <<baseUrl, monitorVars, dispatchVars, response, lastEvent, sidebar>>

\* res.on("data") with the next n bytes of the stream.
PullChunk(n) ==
    /\ pull.phase = "receiving"
    /\ n \in 1..Len(pull.rest)
    /\ LET st == PullData(pull, SubSeq(pull.rest, 1, n))
       IN pull' = [pull EXCEPT !.rest = SubSeq(pull.rest, n + 1, Len(pull.rest)),
                               !.buffer = st.buffer,
                               !.lastStatus = st.lastStatus,
                               !.sink = st.sink]
    /\ UNCHANGED <<baseUrl, monitorVars, dispatchVars, response, lastEvent, sidebar>>

\* res.on("end"): the whole stream has been delivered.
PullEnd ==
    /\ pull.phase = "receiving"
    /\ pull.rest = << >>
    /\ pull' = [pull EXCEPT !.phase = "ended", !.promise = "resolved",
                            !.outcome = PullEndHandler(pull.lastStatus, pull.model)]
    /\ UNCHANGED <<baseUrl, monitorVars, dispatchVars, response, lastEvent, sidebar>>

\* req.on("error", (err) => reject(err))
PullError ==
    /\ pull.phase \in {"sent", "receiving"}
    /\ pull' = [pull EXCEPT !.phase = "failed", !.promise = "rejected"]
    /\ UNCHANGED <<baseUrl, monitorVars, dispatchVars, response, lastEvent, sidebar>>

\* req.on("timeout", () => { req.destroy(); reject(new Error("Pull timeout")); })
PullTimeout ==
    /\ pull.phase \in {"sent", "receiving"}
    /\ pull' = [pull EXCEPT !.phase = "failed", !.promise = "rejected"]
    /\ UNCHANGED <<baseUrl, monitorVars, dispatchVars, response, lastEvent, sidebar>>

\* The connection closes in the middle of the stream: the response is aborted,
\* 'end' is never emitted and no listener of pullModel runs.
PullAborted ==
    /\ pull.phase = "receiving"
    /\ pull' = [pull EXCEPT !.phase = "aborted"]
    /\ UNCHANGED <<baseUrl, monitorVars, dispatchVars, response, lastEvent, sidebar>>

\* _pullModel after `await this._brain.pullModel(...)`: pullDone when res.status is
\* "ok", pullFail otherwise and in the catch block.
PullModelEnd(promise, outcome) ==
    IF promise = "resolved" /\ outcome.status = "ok" THEN "pullDone" ELSE "pullFail"

\* The continuation of _pullModel when pullModel's promise has settled.
PullModelSettled ==
    /\ pull.promise \in {"resolved", "rejected"}
    /\ sidebar.pullEnd = "none"
    /\ sidebar' = [sidebar EXCEPT !.pullEnd = PullModelEnd(pull.promise, pull.outcome)]
    /\ UNCHANGED <<baseUrl, monitorVars, dispatchVars, response, pull, lastEvent>>

\* The callback _pullModel passes to pullModel posts one pullProgress per call:
\* the messages of the download, pullStart first.
PullPosted ==
    <<[command |-> "pullStart", pct |-> "", status |-> ""]>>
    \o [i \in 1..Len(pull.sink) |->
          [command |-> "pullProgress", pct |-> pull.sink[i].pct, status |-> pull.sink[i].status]]
    \o IF sidebar.pullEnd = "none" THEN << >>
       ELSE <<[command |-> sidebar.pullEnd, pct |-> "", status |-> ""]>>

----------------------------------------------------------------------------
(* healthCheck().                                                          *)

\* What `await this._fire("GET", "/health", ...)` can end with:
\*   ok       resolved, a JSON object whose status is "ok"
\*   notok    resolved, a JSON object whose status is not "ok"
\*   null     resolved with JSON null: reading res.status throws a TypeError
\*   remote   rejected, HTTP status >= 400
\*   invalid  rejected, status < 400 and a body that is not JSON
\*   network  rejected, the request's 'error' event
\*   timeout  rejected, the request's 'timeout' event
ProbeOutcomes == {"ok", "notok", "null", "remote", "invalid", "network", "timeout"}

\* The outcomes with which the awaiting try block throws.
Throws(o) == o \in {"null", "remote", "invalid", "network", "timeout"}

\* The outcomes the Brain can produce on `port`.
OutcomesAt(port) == IF port <= MaxOkPort THEN ProbeOutcomes ELSE ProbeOutcomes \ {"ok"}

\* A call slot with no healthCheck() in progress.
IdleCall == [pc |-> "idle", target |-> 0, basePort |-> 0, first |-> 0, probed |-> << >>]

\* healthCheck() up to its first await: the probe of the configured endpoint.
\* `first` and `probed` are history: the port of the first probe, and the ports
\* probed by the discovery loop so far.
HealthCheckEnter(url) ==
    [pc |-> "first", target |-> RequestPort(url), basePort |-> 0,
     first |-> RequestPort(url), probed |-> << >>]

\* A result of one resumption of healthCheck(): the call record, the endpoint and
\* what the call returned ("none" while it awaits the next probe).
Resumed(call, url, ret) == [call |-> call, url |-> url, ret |-> ret]

\* for (let p = basePort; p < basePort + 10; p++) { if (p === basePort) continue; ...
\* The port the loop probes next when its variable is `p`, or 0 when the loop is over.
ScanFrom(basePort, p) ==
    IF p >= basePort + SCAN_SPAN THEN 0
    ELSE IF p = basePort THEN (IF p + 1 < basePort + SCAN_SPAN THEN p + 1 ELSE 0)
    ELSE p

\* The loop goes on from `p`: it awaits the probe of the next port, or is over and
\* healthCheck returns false.
ScanContinue(c, p, url) ==
    LET q == ScanFrom(c.basePort, p)
    IN IF q = 0
       THEN Resumed(IdleCall, url, "false")
       ELSE Resumed([c EXCEPT !.pc = "scan", !.target = q, !.probed = Append(c.probed, q)],
                    url, "none")

\* Faulty variant: entering discovery writes the parsed base back to the endpoint.
FirstProbeResumeRewrites(c, o, url) ==
    IF ~Throws(o)
    THEN Resumed(IdleCall, url, IF o = "ok" THEN "true" ELSE "false")
    ELSE ScanContinue([c EXCEPT !.basePort = BasePort(url)], BasePort(url),
                      TryUrl(url, BasePort(url)))

\* The first probe ends with outcome `o`: try { return res.status === "ok" }
\* catch { base = new URL(this._baseUrl); basePort = ...; for ... }
FirstProbeResume(c, o, url) ==
    IF ~Throws(o)
    THEN Resumed(IdleCall, url, IF o = "ok" THEN "true" ELSE "false")
    ELSE ScanContinue([c EXCEPT !.basePort = BasePort(url)], BasePort(url), url)

\* Faulty variant: the discovery loop adopts the port that answers ok and goes on scanning.
ScanProbeResumeNoReturn(c, o, url) ==
    IF o = "ok"
    THEN ScanContinue(c, c.target + 1, TryUrl(url, c.target))
    ELSE ScanContinue(c, c.target + 1, url)

\* Faulty variant: the discovery loop without its inner try/catch.
ScanProbeResumeNoCatch(c, o, url) ==
    IF o = "ok" THEN Resumed(IdleCall, TryUrl(url, c.target), "true")
    ELSE IF Throws(o) THEN Resumed(IdleCall, url, "rejected")
    ELSE ScanContinue(c, c.target + 1, url)

\* A discovery probe ends with outcome `o`:
\* try { res = await ...; if (res.status === "ok") { this._baseUrl = tryUrl; return true; } }
\* catch { /* try next */ }
ScanProbeResume(c, o, url) ==
    IF o = "ok"
    THEN Resumed(IdleCall, TryUrl(url, c.target), "true")
    ELSE ScanContinue(c, c.target + 1, url)

\* One resumption of healthCheck(): the probe awaited by call record `c` ends with
\* outcome `o` while the endpoint is `url`.
HealthCheckResume(c, o, url) ==
    IF c.pc = "first" THEN FirstProbeResume(c, o, url) ELSE ScanProbeResume(c, o, url)

----------------------------------------------------------------------------
(* The connectivity monitor.                                               *)

\* Faulty variant: offline only once failCount exceeds MAX_FAILS.
DoHealthCheckOffByOne(ok, m) ==
    IF ok THEN
        [failCount |-> 0, wasOnline |-> TRUE,
         posted |-> IF ~m.wasOnline THEN "online" ELSE m.posted]
    ELSE
        LET n == m.failCount + 1
            flip == n > MAX_FAILS /\ m.wasOnline
        IN [failCount |-> n,
            wasOnline |-> IF flip THEN FALSE ELSE m.wasOnline,
            posted |-> IF flip THEN "offline" ELSE m.posted]

\* Faulty variant: recovery is debounced too: no return to online from MAX_FAILS failures on.
DoHealthCheckDebounced(ok, m) ==
    IF ok THEN
        LET up == m.wasOnline \/ m.failCount < MAX_FAILS
        IN [failCount |-> 0, wasOnline |-> up,
            posted |-> IF ~m.wasOnline /\ up THEN "online" ELSE m.posted]
    ELSE
        LET n == m.failCount + 1
            flip == n >= MAX_FAILS /\ m.wasOnline
        IN [failCount |-> n,
            wasOnline |-> IF flip THEN FALSE ELSE m.wasOnline,
            posted |-> IF flip THEN "offline" ELSE m.posted]

\* Faulty variant: a success does not reset failCount.
DoHealthCheckNoReset(ok, m) ==
    IF ok THEN
        [failCount |-> m.failCount, wasOnline |-> TRUE,
         posted |-> IF ~m.wasOnline THEN "online" ELSE m.posted]
    ELSE
        LET n == m.failCount + 1
            flip == n >= MAX_FAILS /\ m.wasOnline
        IN [failCount |-> n,
            wasOnline |-> IF flip THEN FALSE ELSE m.wasOnline,
            posted |-> IF flip THEN "offline" ELSE m.posted]

\* doHealthCheck() after its await: the monitor's variables once `ok` is processed.
DoHealthCheck(ok, m) ==
    IF ok THEN
        [failCount |-> 0, wasOnline |-> TRUE,
         posted |-> IF ~m.wasOnline THEN "online" ELSE m.posted]
    ELSE
        LET n == m.failCount + 1
            flip == n >= MAX_FAILS /\ m.wasOnline
        IN [failCount |-> n,
            wasOnline |-> IF flip THEN FALSE ELSE m.wasOnline,
            posted |-> IF flip THEN "offline" ELSE m.posted]

\* Faulty variant: the initial check reports offline whatever its result.
InitialCheckThenUnguarded(m) == [m EXCEPT !.posted = "offline"]

\* Initial check: doHealthCheck().then(() => { if (!wasOnline) updateBrainStatus(false) })
InitialCheckThen(m) ==
    [m EXCEPT !.posted = IF ~m.wasOnline THEN "offline" ELSE m.posted]

\* The call sites of healthCheck(); each has at most one call in progress.
\*   timer    doHealthCheck, from the initial check and from setInterval
\*   timer2   a doHealthCheck started by setInterval while another is in progress
\*   sidebar  SidebarProvider.resolveWebviewView
Calls == {"timer", "timer2", "sidebar"}

Timers == {"timer", "timer2"}

\* The outcome as healthCheck's code can tell it: ok, notok, or threw.
Seen(o) == IF Throws(o) THEN "threw" ELSE o

\* The history record of a step: the handler `ev` of `id` ran with input `info` and
\* returned or settled with `ret`.  For a step of a healthCheck call, `c` is the
\* call's record before the step: the port probed, the phase and the base port.
\* `was` and `fails` are the monitor's wasOnline and failCount before the step.
Event(ev, id, info, ret, c) ==
    [ev |-> ev, id |-> id, info |-> info, ret |-> ret,
     port |-> c.target, phase |-> c.pc, base |-> c.basePort,
     was |-> wasOnline, fails |-> failCount,
     req |-> 0, kind |-> "none", slot |-> vibeRequest, cancelled |-> FALSE]

\* The initial doHealthCheck() and setInterval(doHealthCheck, 10_000).
Tick(k) ==
    /\ calls[k].pc = "idle"
    /\ failCount < MaxFailCount
    /\ calls' = [calls EXCEPT ![k] = HealthCheckEnter(baseUrl)]
    /\ lastEvent' = Event("tick", k, "none", "none", IdleCall)
    /\ UNCHANGED <<baseUrl, failCount, wasOnline, posted, initialCheck, falseRun, dispatchVars,
                   ingestVars, sidebar>>

\* SidebarProvider.resolveWebviewView: this._brain.healthCheck().then(...)
ResolveWebviewView(k) ==
    /\ calls[k].pc = "idle"
    /\ calls' = [calls EXCEPT ![k] = HealthCheckEnter(baseUrl)]
    /\ lastEvent' = Event("resolveView", k, "none", "none", IdleCall)
    /\ UNCHANGED <<baseUrl, failCount, wasOnline, posted, initialCheck, falseRun, dispatchVars,
                   ingestVars, sidebar>>

\* The probe a call awaits settles; healthCheck() resumes and, when it returns,
\* its caller's continuation runs: doHealthCheck's for a timer call, and after it
\* the initial check's then when the call is the first one started.
ProbeSettles(k, o) ==
    /\ calls[k].pc \in {"first", "scan"}
    /\ o \in OutcomesAt(calls[k].target)
    /\ LET r == HealthCheckResume(calls[k], o, baseUrl)
           m0 == [failCount |-> failCount, wasOnline |-> wasOnline, posted |-> posted]
           m1 == DoHealthCheck(r.ret = "true", m0)
           initial == initialCheck /\ k = "timer"
           m2 == IF initial THEN InitialCheckThen(m1) ELSE m1
       IN /\ calls' = [calls EXCEPT ![k] = r.call]
          /\ baseUrl' = r.url
          /\ IF r.ret \in {"true", "false"} /\ k \in Timers
             THEN /\ failCount' = m2.failCount
                  /\ wasOnline' = m2.wasOnline
                  /\ posted' = m2.posted
                  /\ initialCheck' = (initialCheck /\ ~initial)
                  /\ falseRun' = IF r.ret = "true" THEN 0 ELSE falseRun + 1
             ELSE UNCHANGED <<failCount, wasOnline, posted, initialCheck, falseRun>>
          /\ lastEvent' = Event("probe", k, Seen(o), r.ret, calls[k])
    /\ UNCHANGED <<dispatchVars, ingestVars, sidebar>>

InitMonitor ==
    /\ baseUrl \in ConfiguredUrls
    /\ calls = [k \in Calls |-> IdleCall]
    /\ failCount = 0
    /\ wasOnline = FALSE
    /\ posted = "none"
    /\ initialCheck = TRUE
    /\ falseRun = 0
    /\ vibeRequest = NoRequest
    /\ requests = [h \in Handles |-> FreeRequest]
    /\ response = NoResponse
    /\ pull = NoPull
    /\ sidebar = NoSidebar
    /\ lastEvent = InitEvent

NextMonitor ==
    \/ Tick("timer")
    \/ ResolveWebviewView("sidebar")
    \/ \E k \in Calls, o \in ProbeOutcomes : ProbeSettles(k, o)

SpecMonitor == InitMonitor /\ [][NextMonitor]_vars

\* setInterval starts a doHealthCheck every 10 s without awaiting the previous one,
\* and a call with discovery awaits up to ten probes: two timer calls can be in
\* progress.  Whenever both are, "timer" is the one that was started first.
TickFirst == calls["timer2"].pc = "idle" /\ Tick("timer")

TickOverlap == calls["timer"].pc # "idle" /\ Tick("timer2")

NextOverlap ==
    \/ TickFirst
    \/ TickOverlap
    \/ \E k \in Timers, o \in ProbeOutcomes : ProbeSettles(k, o)

SpecOverlap == InitMonitor /\ [][NextOverlap]_vars

\* The dispatch specification: the same initial state, the requests' handlers.
Init == InitMonitor

Next ==
    \/ SendVibe
    \/ \E path \in FirePaths, target \in FireTargets : Fire(path, target)
    \/ PullModel
    \/ \E h \in Handles : Response(h)
    \/ \E h \in Handles, status \in Statuses, body \in Bodies : ResponseEnd(h, status, body)
    \/ \E h \in Handles : RequestError(h)
    \/ \E h \in Handles : Timeout(h)
    \/ \E h \in Handles : ResponseAborted(h)
    \/ Abort

Spec == Init /\ [][Next]_vars

\* Faulty variant: replacing the endpoint re-targets the exchanges under way.
AdoptRetargets(url, p, reqs) ==
    [url |-> TryUrl(url, p),
     reqs |-> [h \in DOMAIN reqs |->
                 IF reqs[h].kind # "free" /\ reqs[h].phase # "closed"
                 THEN [reqs[h] EXCEPT !.target = p] ELSE reqs[h]]]

\* healthCheck's discovery: this._baseUrl = tryUrl.  The endpoint is replaced
\* whole; the requests keep the options they were made with.
Adopt(url, p, reqs) == [url |-> TryUrl(url, p), reqs |-> reqs]

\* A discovery probe completes with {status: "ok"}: its 'end' handler resolves the
\* promise, healthCheck resumes in the same turn and adopts the probe's URL.
DiscoveryProbeOk(h) ==
    /\ requests[h].kind = "fire" /\ requests[h].override
    /\ requests[h].phase = "receiving"
    /\ "ok" \in OutcomesAt(requests[h].target)
    /\ LET r == requests[h]
           slot == ClearIfSame(vibeRequest, h)
           done == [Settle(r, "resolved") EXCEPT !.phase = "closed"]
           a == Adopt(baseUrl, r.target, [requests EXCEPT ![h] = done])
       IN /\ baseUrl' = a.url
          /\ vibeRequest' = slot
          /\ requests' = Collect(a.reqs, slot)
          /\ lastEvent' = ReqEvent("adopt", h, r, "ok", Settled(r, "resolved"))
    /\ UNCHANGED <<monitorVars, ingestVars, sidebar>>

\* The endpoint specification: from the default endpoint, exchanges of the three
\* kinds start and are answered, with success or with a remote error, while
\* discovery probes answer ok and healthCheck replaces the endpoint.
InitEndpoint ==
    /\ baseUrl = DefaultUrl
    /\ calls = [k \in Calls |-> IdleCall]
    /\ failCount = 0
    /\ wasOnline = FALSE
    /\ posted = "none"
    /\ initialCheck = TRUE
    /\ falseRun = 0
    /\ vibeRequest = NoRequest
    /\ requests = [h \in Handles |-> FreeRequest]
    /\ response = NoResponse
    /\ pull = NoPull
    /\ sidebar = NoSidebar
    /\ lastEvent = InitEvent

NextEndpoint ==
    \/ SendVibe
    \/ \E target \in FireTargets : Fire("/health", target)
    \/ PullModel
    \/ \E h \in Handles : Response(h)
    \/ \E h \in Handles, status \in Statuses : ResponseEnd(h, status, "json")
    \/ \E h \in Handles : DiscoveryProbeOk(h)

SpecEndpoint == InitEndpoint /\ [][NextEndpoint]_vars

\* The classification specification: a response with any of the status codes and
\* bodies has arrived in full, and its 'end' handler runs.
InitResponse ==
    /\ baseUrl = DefaultUrl
    /\ calls = [k \in Calls |-> IdleCall]
    /\ failCount = 0
    /\ wasOnline = FALSE
    /\ posted = "none"
    /\ initialCheck = TRUE
    /\ falseRun = 0
    /\ vibeRequest = NoRequest
    /\ requests = [h \in Handles |-> FreeRequest]
    /\ \E status \in ResponseStatuses, sent \in SentBodies :
          response = [status |-> status, sent |-> sent, data |-> Encode(sent),
                      done |-> FALSE, result |-> NoResult]
    /\ pull = NoPull
    /\ sidebar = NoSidebar
    /\ lastEvent = InitEvent

NextResponse == ClassifyEnd

SpecResponse == InitResponse /\ [][NextResponse]_vars

\* The pull specification: one pullModel call, its stream cut into chunks in every way.
InitPull ==
    /\ baseUrl = DefaultUrl
    /\ calls = [k \in Calls |-> IdleCall]
    /\ failCount = 0
    /\ wasOnline = FALSE
    /\ posted = "none"
    /\ initialCheck = TRUE
    /\ falseRun = 0
    /\ vibeRequest = NoRequest
    /\ requests = [h \in Handles |-> FreeRequest]
    /\ response = NoResponse
    /\ \E model \in Models, http \in PullStatuses, units \in Streams, closed \in BOOLEAN :
          /\ units = << >> => closed
          /\ pull = NewPull(model, http, units, closed)
    /\ sidebar = NoSidebar
    /\ lastEvent = InitEvent

NextPull ==
    \/ PullResponse
    \/ \E n \in 1..Len(pull.rest) : PullChunk(n)
    \/ PullEnd
    \/ PullError
    \/ PullTimeout

SpecPull == InitPull /\ [][NextPull]_vars

\* The units of the streams of the byte specification: one has the status WIDE.
WideUnits ==
    { EventUnit(TRUE, "10", TRUE, WIDE),
      EventUnit(TRUE, "100", TRUE, "success"),
      EventUnit(FALSE, "", TRUE, "error") }

WideStreams == UNION { [1..n -> WideUnits] : n \in 0..MaxUnits }

\* The byte specification: one pullModel call whose stream has characters of more
\* than one byte, cut into chunks at every byte.
InitChunks ==
    /\ baseUrl = DefaultUrl
    /\ calls = [k \in Calls |-> IdleCall]
    /\ failCount = 0
    /\ wasOnline = FALSE
    /\ posted = "none"
    /\ initialCheck = TRUE
    /\ falseRun = 0
    /\ vibeRequest = NoRequest
    /\ requests = [h \in Handles |-> FreeRequest]
    /\ response = NoResponse
    /\ \E model \in Models, units \in WideStreams, closed \in BOOLEAN :
          /\ units = << >> => closed
          /\ pull = NewPull(model, 200, units, closed)
    /\ sidebar = NoSidebar
    /\ lastEvent = InitEvent

SpecChunks == InitChunks /\ [][NextPull]_vars


\* The sidebar specification: generations submitted from the webview and from the
\* command, the stop button, and the tracked requests behind them.
InitSidebar == InitMonitor /\ baseUrl = DefaultUrl

NextSidebar ==
    \/ WebviewGo
    \/ WebviewStop
    \/ CommandVibe
    \/ OnVibeMessage
    \/ OnStopMessage
    \/ \E h \in Handles : VibeResponse(h)
    \/ \E h \in Handles, status \in Statuses, body \in Bodies : VibeEnd(h, status, body)
    \/ \E h \in Handles : VibeError(h)
    \/ \E h \in Handles : VibeTimeout(h)
    \/ \E h \in Handles : VibeAborted(h)
    \/ \E value \in VibeValues, autoSend \in BOOLEAN : VibeSettled(value, autoSend)
    \/ \E g \in Runs, ok \in BOOLEAN : AgentSettled(g, ok)
    \/ WebviewMessage

SpecSidebar == InitSidebar /\ [][NextSidebar]_vars

\* The download specification: _pullModel has posted pullStart and awaits one
\* pullModel call, whose connection may close before the stream ends.
InitDownload == InitPull

NextDownload ==
    \/ PullResponse
    \/ \E n \in 1..Len(pull.rest) : PullChunk(n)
    \/ PullEnd
    \/ PullError
    \/ PullTimeout
    \/ PullAborted
    \/ PullModelSettled

SpecDownload == InitDownload /\ [][NextDownload]_vars

----------------------------------------------------------------------------
(* Claims about the connectivity monitor and healthCheck (SpecMonitor).    *)

\* The last step was doHealthCheck processing a healthCheck result.
MonitorProcessed ==
    lastEvent.ev = "probe" /\ lastEvent.id \in Timers /\ lastEvent.ret \in {"true", "false"}

\* C1: a step takes the monitor from Online to Offline exactly when it processes a
\* false result that is the third consecutive one since the last true result;
\* no other step, and no first or second false result, does.
C1_OfflineExactlyAtThirdFailure ==
    (lastEvent.was /\ ~wasOnline)
        <=> (lastEvent.was /\ MonitorProcessed /\ lastEvent.ret = "false" /\ falseRun = 3)

\* An Online monitor has just gone Offline on its third consecutive failure.
C1_Witness ==
    /\ MonitorProcessed /\ lastEvent.was /\ ~wasOnline
    /\ lastEvent.ret = "false" /\ falseRun = 3 /\ posted = "offline"

\* C2: when an Offline monitor processes a true result it is Online after that
\* step, whatever the failure counter was.
C2_OnlineOnFirstSuccess ==
    (MonitorProcessed /\ ~lastEvent.was /\ lastEvent.ret = "true") => wasOnline

\* An Offline monitor with more than three failures counted has just recovered.
C2_Witness ==
    /\ MonitorProcessed /\ ~lastEvent.was /\ lastEvent.ret = "true"
    /\ lastEvent.fails > 3 /\ wasOnline

\* The last step was the end of a discovery probe.
ScanProbed == lastEvent.ev = "probe" /\ lastEvent.phase = "scan"

\* C3: discovery probes the ports above the configured port p in ascending order,
\* p+1 first and p+9 last, one at a time; a port that does not answer ok is passed
\* over; the first one that answers ok becomes the endpoint and healthCheck
\* returns true without probing a higher port.
C3_DiscoveryAscendingFirstOk ==
    /\ \A k \in Calls :
          calls[k].pc = "scan" =>
              /\ calls[k].target \in (calls[k].basePort + 1)..(calls[k].basePort + 9)
              /\ Len(calls[k].probed) = calls[k].target - calls[k].basePort
              /\ \A i \in 1..Len(calls[k].probed) : calls[k].probed[i] = calls[k].basePort + i
    /\ (lastEvent.ev = "probe" /\ lastEvent.phase = "first" /\ lastEvent.info = "threw") =>
          /\ lastEvent.ret = "none"
          /\ calls[lastEvent.id].pc = "scan"
          /\ calls[lastEvent.id].basePort = BasePort(baseUrl)
          /\ calls[lastEvent.id].target = BasePort(baseUrl) + 1
    /\ (ScanProbed /\ lastEvent.info = "ok") =>
          /\ lastEvent.ret = "true"
          /\ baseUrl.port = lastEvent.port
          /\ calls[lastEvent.id].pc = "idle"
    /\ (ScanProbed /\ lastEvent.info # "ok") =>
          IF lastEvent.port < lastEvent.base + 9
          THEN /\ lastEvent.ret = "none"
               /\ calls[lastEvent.id].pc = "scan"
               /\ calls[lastEvent.id].target = lastEvent.port + 1
          ELSE /\ lastEvent.ret = "false"
               /\ calls[lastEvent.id].pc = "idle"

\* Discovery passed over p+1 and has just adopted p+2, the first port to answer ok.
C3_Witness ==
    /\ ScanProbed /\ lastEvent.info = "ok" /\ lastEvent.ret = "true"
    /\ lastEvent.port = lastEvent.base + 2
    /\ baseUrl.port = lastEvent.port

\* C8: healthCheck never rejects: whatever its probes end with, each resumption
\* either awaits the next probe or returns a boolean.
C8_HealthCheckNeverRejects ==
    lastEvent.ev = "probe" =>
        /\ lastEvent.ret \in {"none", "true", "false"}
        /\ (lastEvent.ret = "none") <=> (calls[lastEvent.id].pc # "idle")

\* Every probe of a call failed, the last discovery probe by throwing, and the call
\* has returned false.
C8_Witness ==
    /\ ScanProbed /\ lastEvent.info = "threw" /\ lastEvent.ret = "false"
    /\ lastEvent.port = lastEvent.base + 9

----------------------------------------------------------------------------
(* Claims about request dispatch (Spec).                                   *)

\* The request can still emit events.
InFlight(r) == r.kind # "free" /\ (r.phase # "closed" \/ r.errQueued)

\* C4: a sendVibe started while an earlier tracked request is unresolved leaves
\* every request in flight as it is and puts only the new one in the slot; an
\* abort() destroys the request in the slot and no other.
C4_SecondTrackedLeavesFirst ==
    [][ /\ lastEvent'.ev = "sendVibe" =>
              /\ requests[lastEvent'.req].kind = "free"
              /\ vibeRequest' = lastEvent'.req
              /\ \A h \in Handles \ {lastEvent'.req} :
                    InFlight(requests[h]) => requests'[h] = requests[h]
        /\ (lastEvent'.ev = "abort" /\ vibeRequest # NoRequest) =>
              /\ lastEvent'.req = vibeRequest
              /\ requests'[vibeRequest].phase = "closed"
              /\ \A h \in Handles \ {vibeRequest} : requests'[h] = requests[h]
      ]_vars

\* Two tracked requests overlapped; abort() has destroyed the newer one and the
\* older one is still in flight, untouched.
C4_Witness ==
    /\ lastEvent.ev = "abort" /\ lastEvent.req # NoRequest /\ vibeRequest = NoRequest
    /\ requests[lastEvent.req].cancelled
    /\ \E h \in Handles \ {lastEvent.req} :
          /\ requests[h].kind = "tracked" /\ ~requests[h].cancelled
          /\ requests[h].phase \in {"sent", "receiving"} /\ requests[h].promise = "pending"

\* The last step was a completion handler (end, error or timeout) of a tracked request.
TrackedCompleted ==
    lastEvent.ev \in {"end", "error", "timeout"} /\ lastEvent.kind = "tracked"

\* C5: the completion of a tracked request clears the slot exactly when the slot
\* holds that request; a slot holding another, newer request is left holding it.
C5_CompletionClearsOnlyOwnSlot ==
    TrackedCompleted =>
        /\ vibeRequest = (IF lastEvent.slot = lastEvent.req THEN NoRequest ELSE lastEvent.slot)
        /\ (lastEvent.slot \notin {NoRequest, lastEvent.req}) =>
              /\ requests[vibeRequest].kind = "tracked"
              /\ ~requests[vibeRequest].cancelled

\* The 'error' of an aborted request has been handled while the slot held a newer
\* request, which is still in the slot and in flight.
C5_Witness ==
    /\ TrackedCompleted /\ lastEvent.ev = "error" /\ lastEvent.cancelled
    /\ vibeRequest \notin {NoRequest, lastEvent.req}
    /\ vibeRequest = lastEvent.slot
    /\ requests[vibeRequest].phase = "sent"

\* C6: abort() with a request in the slot destroys that request's connection and
\* leaves the slot empty; no later event of a cancelled request resolves its promise.
C6_AbortDestroysAndNeverResolves ==
    /\ (lastEvent.ev = "abort" /\ lastEvent.slot # NoRequest) =>
          /\ vibeRequest = NoRequest
          /\ lastEvent.req = lastEvent.slot
          /\ requests[lastEvent.req].phase = "closed"
    /\ \A h \in Handles : requests[h].cancelled => requests[h].phase = "closed"
    /\ lastEvent.cancelled => lastEvent.ret # "resolved"

\* abort() has destroyed a tracked request whose response had started to arrive.
C6_Witness ==
    /\ lastEvent.ev = "abort" /\ lastEvent.slot # NoRequest
    /\ lastEvent.phase = "receiving" /\ lastEvent.kind = "tracked"
    /\ vibeRequest = NoRequest

\* C7: abort() with an empty slot changes nothing and does not throw.
C7_AbortIdleIsNoOp ==
    [][ (lastEvent'.ev = "abort" /\ vibeRequest = NoRequest) =>
            /\ vibeRequest' = NoRequest
            /\ requests' = requests
            /\ baseUrl' = baseUrl
            /\ lastEvent'.ret = "none"
      ]_vars

\* abort() ran with an empty slot while an older tracked request and a
\* fire-and-forget or pull request were in flight.
C7_Witness ==
    /\ lastEvent.ev = "abort" /\ lastEvent.slot = NoRequest /\ vibeRequest = NoRequest
    /\ \E h \in Handles : requests[h].kind = "tracked" /\ requests[h].phase = "sent"
    /\ \E h \in Handles : requests[h].kind \in {"fire", "pull"} /\ requests[h].phase = "receiving"

\* C9: no step of a fire-and-forget or pull request (its start, response, end,
\* error, timeout or aborted response) changes the slot or any tracked request.
C9_FireAndPullNeverTouchSlot ==
    [][ lastEvent'.kind \in {"fire", "pull"} =>
            /\ vibeRequest' = vibeRequest
            /\ \A h \in Handles : requests[h].kind = "tracked" => requests'[h] = requests[h]
      ]_vars

\* A discovery probe has completed while a tracked request in the slot was receiving.
C9_Witness ==
    /\ lastEvent.kind = "fire" /\ lastEvent.ev = "end"
    /\ lastEvent.port # RequestPort(baseUrl)
    /\ vibeRequest # NoRequest
    /\ requests[vibeRequest].kind = "tracked" /\ requests[vibeRequest].phase = "receiving"

\* C10: a timeout rejects the pending promise with the timeout failure and destroys
\* the connection, also when the response had started to arrive; a tracked
\* request's timeout clears the slot if the slot holds that request, and leaves it
\* otherwise; only the end of a complete response ever resolves a promise.
C10_TimeoutRejectsAndDestroys ==
    /\ lastEvent.ev = "timeout" =>
          /\ lastEvent.ret = "rejected" /\ lastEvent.info = "timeout"
          /\ requests[lastEvent.req].phase = "closed"
          /\ requests[lastEvent.req].promise \in {"rejected", "none"}
          /\ lastEvent.kind = "tracked" =>
                vibeRequest = (IF lastEvent.slot = lastEvent.req THEN NoRequest
                               ELSE lastEvent.slot)
          /\ lastEvent.kind # "tracked" => vibeRequest = lastEvent.slot
    /\ lastEvent.ret = "resolved" => (lastEvent.ev = "end" /\ lastEvent.phase = "receiving")
    /\ \A h \in Handles : requests[h].promise = "rejected" => requests[h].phase = "closed"

\* The timeout of the tracked request in the slot has fired after part of the
\* response had arrived.
C10_Witness ==
    /\ lastEvent.ev = "timeout" /\ lastEvent.phase = "receiving"
    /\ lastEvent.kind = "tracked" /\ lastEvent.slot = lastEvent.req
    /\ lastEvent.ret = "rejected" /\ vibeRequest = NoRequest

----------------------------------------------------------------------------
(* Claims about the classification of responses (SpecResponse).            *)

\* The first n characters of `data`, or all of it when it is shorter.
IsPrefixOfLength(t, data, n) ==
    /\ Len(t) = (IF Len(data) < n THEN Len(data) ELSE n)
    /\ \A i \in 1..Len(t) : t[i] = data[i]

\* The body the Brain sent is a JSON object with a detail member.
SentHasDetail == response.sent.kind = "object" /\ response.sent.hasDetail

C12_SuccessOrInvalid ==
    (response.done /\ response.status < 400) =>
        /\ response.result.how \in {"resolved", "rejected"}
        /\ response.sent.kind \in {"object", "null"} =>
              /\ response.result.how = "resolved"
              /\ response.result.value.kind = response.sent.kind
              /\ response.sent.kind = "object" =>
                    /\ (Get(response.result.value.members, "detail") # Undefined)
                           <=> response.sent.hasDetail
                    /\ response.sent.hasDetail =>
                           Get(response.result.value.members, "detail").value
                               = response.sent.detail
        /\ response.sent.kind = "html" =>
              /\ response.result.how = "rejected" /\ response.result.error = "invalid"
              /\ IsPrefixOfLength(response.result.detail, response.data, 200)

\* A 200 whose body is a page of 201 characters has been rejected with its first 200.
C12_Witness ==
    /\ response.done /\ response.status = 200 /\ response.sent.kind = "html"
    /\ Len(response.data) = 201
    /\ response.result.how = "rejected" /\ response.result.error = "invalid"
    /\ Len(response.result.detail) = 200

----------------------------------------------------------------------------
(* Claims about pullModel and its stream (SpecPull).                       *)

\* The number of characters of the stream delivered so far.
Delivered == Len(StreamText(pull.units, pull.closed)) - Len(pull.rest)

\* Unit k is followed by a blank line, and the unit and its blank line have been
\* delivered in full.
Arrived(k) ==
    /\ k < Len(pull.units) \/ pull.closed
    /\ Len(StreamText(SubSeq(pull.units, 1, k), TRUE)) <= Delivered

\* The units that have arrived, in stream order.
ArrivedUnits ==
    SubSeq(pull.units, 1, Cardinality({k \in 1..Len(pull.units) : Arrived(k)}))

\* The units that decode: a data: line whose payload is a JSON object.
Decodes(u) == u.kind = "event"

\* A unit's status, empty when it has none.
StatusOf(u) == IF u.hasStatus THEN u.status ELSE ""

\* The progress calls due for a sequence of units: one per decoding unit with a
\* numeric pct, in order.
RECURSIVE RefSink(_)
RefSink(units) ==
    IF units = << >> THEN << >>
    ELSE (IF Decodes(Head(units)) /\ Head(units).hasPct
          THEN <<[pct |-> Head(units).pct, status |-> StatusOf(Head(units))]>>
          ELSE << >>)
         \o RefSink(Tail(units))

\* The status of the last decoding unit of a sequence, empty when there is none.
RECURSIVE RefStatus(_)
RefStatus(units) ==
    IF units = << >> THEN ""
    ELSE IF Decodes(units[Len(units)]) THEN StatusOf(units[Len(units)])
    ELSE RefStatus(SubSeq(units, 1, Len(units) - 1))

\* C13: every operation ends in a rejected or failed result when its exchange
\* suffers a network error, a timeout or an HTTP status >= 400; for pullModel: a
\* pull whose response has status >= 400 is reported as failed, not as status ok.
C13_ErrorsPropagate ==
    /\ pull.phase = "failed" => pull.promise = "rejected"
    /\ (pull.phase = "ended" /\ pull.http >= 400) =>
          \/ pull.promise = "rejected"
          \/ pull.promise = "resolved" /\ pull.outcome.status = "error"

\* C14: the progress sink is called exactly once for each decoded unit that has a
\* numeric pct, with that unit's (pct, status), in arrival order; the other units
\* produce no call; no call is merged, dropped, duplicated or reordered.
C14_ProgressPerUnitInOrder ==
    pull.phase \in {"receiving", "ended", "failed"} => pull.sink = RefSink(ArrivedUnits)

\* The stream `pct 10 running`, `done` has ended with exactly one call (10, running).
C14_Witness ==
    /\ pull.phase = "ended"
    /\ pull.units = <<EventUnit(TRUE, "10", TRUE, "running"), EventUnit(FALSE, "", TRUE, "done")>>
    /\ pull.sink = <<[pct |-> "10", status |-> "running"]>>
    /\ pull.outcome.status = "ok"

\* C15: at stream end the result depends on the last known status only: done or
\* success give {status ok, the requested model}, error gives {status error,
\* message Pull failed}, any other value, the empty one included, gives {status ok,
\* the requested model}.
C15_OutcomeFromLastStatus ==
    pull.phase = "ended" =>
        /\ pull.promise = "resolved"
        /\ pull.lastStatus \in {"done", "success"} =>
              pull.outcome = [status |-> "ok", model |-> pull.model, message |-> ""]
        /\ pull.lastStatus = "error" =>
              pull.outcome = [status |-> "error", model |-> "", message |-> "Pull failed"]
        /\ pull.lastStatus \notin {"done", "success", "error"} =>
              pull.outcome = [status |-> "ok", model |-> pull.model, message |-> ""]

\* A stream in which no status was ever seen has ended with status ok.
C15_Witness ==
    /\ pull.phase = "ended" /\ pull.units # << >> /\ pull.lastStatus = ""
    /\ pull.outcome = [status |-> "ok", model |-> pull.model, message |-> ""]

\* The last unit of the stream that decodes, whether or not a blank line follows it.
HasDecodable == \E k \in 1..Len(pull.units) : Decodes(pull.units[k])

\* C16: a stream whose last decodable unit has status error ends with {status
\* error, message Pull failed}, however it is cut into chunks and whether or not
\* a blank line follows that unit.
C16_LastErrorGivesError ==
    (pull.phase = "ended" /\ HasDecodable /\ RefStatus(pull.units) = "error") =>
        pull.outcome = [status |-> "error", model |-> "", message |-> "Pull failed"]

\* The units that have arrived, the malformed ones left out.
WellFormedArrived == SelectSeq(ArrivedUnits, LAMBDA u : u.kind # "malformed")

\* C17: a unit whose payload does not parse is dropped without effect: the last
\* known status and the progress calls are those of the stream without it, the
\* pull is neither rejected nor ended by it, and the result at stream end is the
\* one of the stream without it.
C17_MalformedUnitDropped ==
    pull.phase \in {"receiving", "ended"} =>
        /\ pull.lastStatus = RefStatus(WellFormedArrived)
        /\ pull.sink = RefSink(WellFormedArrived)
        /\ pull.phase = "receiving" => pull.promise = "pending"
        /\ pull.phase = "ended" =>
              /\ pull.promise = "resolved"
              /\ pull.outcome.status =
                     (IF RefStatus(WellFormedArrived) = "error" THEN "error" ELSE "ok")

\* A malformed unit arrived after a unit with status error; the stream has ended
\* and the pull has failed as it would have without the malformed unit.
C17_Witness ==
    /\ pull.phase = "ended" /\ pull.closed
    /\ pull.units = <<EventUnit(FALSE, "", TRUE, "error"), OtherUnit("malformed")>>
    /\ pull.lastStatus = "error" /\ pull.sink = << >>
    /\ pull.outcome.status = "error"

----------------------------------------------------------------------------
(* Claims about the start and the frame of discovery (SpecMonitor).        *)

\* The last step was the end of the probe of the configured endpoint.
FirstProbed == lastEvent.ev = "probe" /\ lastEvent.phase = "first"

\* C18: healthCheck starts discovery exactly when the probe of the configured
\* endpoint fails, and the probe succeeds only with a decoded response whose status
\* is ok: an error, a timeout, a status >= 400, an invalid body and a valid response
\* whose status is not ok each start discovery; a status-ok response never does.
C18_DiscoveryIffProbeNotOk ==
    FirstProbed =>
        ((lastEvent.info # "ok")
            <=> (lastEvent.ret = "none" /\ calls[lastEvent.id].pc = "scan"))

\* C19: a healthCheck whose first probe failed and whose discovery probes all
\* failed returns false, and one whose first probe succeeds returns true, and no
\* step of either changes the endpoint: the only step of a healthCheck call that
\* changes it is the discovery probe that answers ok.
C19_NoDiscoveryLeavesEndpoint ==
    [][ /\ (lastEvent'.ev = "probe"
              /\ ~(lastEvent'.phase = "scan" /\ lastEvent'.info = "ok"))
           => baseUrl' = baseUrl
        /\ (lastEvent'.ev = "probe" /\ lastEvent'.phase = "scan"
              /\ lastEvent'.info # "ok" /\ lastEvent'.port = lastEvent'.base + 9)
           => lastEvent'.ret = "false"
        /\ (lastEvent'.ev = "probe" /\ lastEvent'.phase = "first" /\ lastEvent'.info = "ok")
           => lastEvent'.ret = "true"
        /\ lastEvent'.ev \in {"tick", "resolveView"} => baseUrl' = baseUrl
      ]_vars

\* All nine discovery probes of a call have failed, the call has returned false and
\* the endpoint is still the configured URL, which names no port.
C19_Witness ==
    /\ ScanProbed /\ lastEvent.info # "ok" /\ lastEvent.ret = "false"
    /\ lastEvent.port = lastEvent.base + 9
    /\ baseUrl.port = NoPort

----------------------------------------------------------------------------
(* Claims about the endpoint and the exchanges under way (SpecEndpoint).   *)

\* The exchanges that go to the endpoint: all but the discovery probes.
ToEndpoint(r) == r.kind \in {"tracked", "fire", "pull"} /\ ~r.override

\* C20: an exchange uses the endpoint read when it starts; a discovery that
\* replaces the endpoint while exchanges are in flight changes neither their
\* targets nor anything else of them, and an exchange started afterwards goes to
\* the new endpoint.
C20_ExchangeKeepsItsEndpoint ==
    [][ /\ \A h \in Handles :
              (requests[h].kind # "free" /\ requests'[h].kind # "free")
                  => requests'[h].target = requests[h].target
        /\ (lastEvent'.ev \in {"sendVibe", "fire", "pullModel"}
              /\ ToEndpoint(requests'[lastEvent'.req]))
           => requests'[lastEvent'.req].target = RequestPort(baseUrl')
        /\ lastEvent'.ev = "adopt" =>
              /\ baseUrl'.port = lastEvent'.port
              /\ \A h \in Handles \ {lastEvent'.req} : requests'[h] = requests[h]
      ]_vars

\* The endpoint was replaced while a tracked request was in flight; a pull started
\* afterwards goes to the new endpoint and the tracked one is still in flight to
\* the old one.
C20_Witness ==
    /\ lastEvent.ev = "pullModel"
    /\ requests[lastEvent.req].target = RequestPort(baseUrl)
    /\ \E h \in Handles \ {lastEvent.req} :
          /\ requests[h].kind = "tracked" /\ requests[h].promise = "pending"
          /\ requests[h].phase \in {"sent", "receiving"}
          /\ requests[h].target # RequestPort(baseUrl)

----------------------------------------------------------------------------
(* Claims about the settlement of exchanges (Spec).                        *)

\* C21: every started exchange settles its caller exactly once: no handler settles
\* a promise that is already settled, and once an exchange can emit no more
\* events (its response has ended, its error or timeout was handled, its
\* connection was destroyed or dropped) its promise is resolved or rejected.
C21_EveryExchangeSettlesOnce ==
    [][ \A h \in Handles :
          /\ (requests[h].kind # "free" /\ requests[h].promise # "pending"
                /\ lastEvent'.req = h)
             => lastEvent'.ret = "none"
          /\ (InFlight(requests[h]) /\ ~InFlight(requests'[h]))
             => \/ requests[h].promise # "pending"
                \/ lastEvent'.ret \in {"resolved", "rejected"}
      ]_vars

\* C22: an abort() of a tracked exchange whose caller is waiting ends in a
\* rejection of the shape of a network error: the destroyed request is left with
\* its 'error' event to come, and the handling of that event rejects the promise
\* with the connection's error, never with a distinct cancelled outcome.
C22_AbortRejectsLikeNetworkError ==
    [][ /\ (lastEvent'.ev = "abort" /\ vibeRequest # NoRequest
              /\ requests[vibeRequest].promise = "pending")
           => /\ requests'[vibeRequest].kind = "tracked"
              /\ requests'[vibeRequest].errQueued
        /\ (lastEvent'.ev = "error" /\ lastEvent'.cancelled
              /\ requests[lastEvent'.req].promise = "pending")
           => (lastEvent'.ret = "rejected" /\ lastEvent'.info = "network")
      ]_vars

\* C23: with two tracked exchanges overlapping, the completion (end, error or
\* timeout) of one settles its own caller, with the result of its own response,
\* whichever of the two the slot holds, and leaves the other exchange and its
\* caller's promise as they are.
C23_OutcomeToOwnCallerOnly ==
    [][ TrackedCompleted' =>
          LET h == lastEvent'.req
          IN /\ \A g \in Handles \ {h} : requests'[g] = requests[g]
             /\ requests[h].promise = "pending" =>
                   /\ lastEvent'.ret \in {"resolved", "rejected"}
                   /\ lastEvent'.ev = "end" =>
                         (lastEvent'.ret = "resolved") = (lastEvent'.info = "value")
      ]_vars

\* The older of two overlapping tracked exchanges has ended and resolved its
\* caller while the newer one, in the slot, is still in flight and pending.
C23_Witness ==
    /\ TrackedCompleted /\ lastEvent.ev = "end" /\ lastEvent.ret = "resolved"
    /\ lastEvent.slot \notin {NoRequest, lastEvent.req}
    /\ vibeRequest = lastEvent.slot
    /\ requests[vibeRequest].kind = "tracked"
    /\ requests[vibeRequest].promise = "pending"
    /\ requests[vibeRequest].phase \in {"sent", "receiving"}

----------------------------------------------------------------------------
(* Claims about discovery and the monitor's reports (SpecMonitor).         *)

\* The ports a healthCheck call has probed: its first probe's and the discovery loop's.
Asked(c) == {c.first} \cup {c.probed[i] : i \in 1..Len(c.probed)}

\* C24: the monitor heals itself: a Brain that answers on the configured port
\* (8420 for every configured URL here) or on one of the nine ports above it is
\* found by the next health check, whatever was discovered before; so a health
\* check whose discovery found nothing has asked each of these ports.
C24_FailedCheckAskedConfiguredPorts ==
    [][ \A k \in Calls :
          (lastEvent'.ev = "probe" /\ lastEvent'.id = k /\ lastEvent'.ret = "false"
             /\ calls[k].pc = "scan")
          => DEFAULT_PORT..(DEFAULT_PORT + SCAN_SPAN - 1) \subseteq Asked(calls[k])
      ]_vars

\* C25: when the probe of the endpoint fails, the ports discovery tries are
\* 8420-8429: every discovery probe goes to one of them, and a discovery that
\* found nothing has tried them all, 8420 being the endpoint already tried.
C25_DiscoveryTries8420To8429 ==
    /\ \A k \in Calls :
          calls[k].pc = "scan" =>
              calls[k].target \in DEFAULT_PORT..(DEFAULT_PORT + SCAN_SPAN - 1)
    /\ (ScanProbed /\ lastEvent.ret = "false") => lastEvent.base = DEFAULT_PORT

----------------------------------------------------------------------------
(* Claims about the reach of abort() (Spec).                               *)

\* C27: abort() touches the tracked request only: a fire-and-forget request (a
\* health or discovery probe, listAgents, listModels, setModel, catalogModels) or
\* a pull in flight is after abort() exactly as it was before, connection,
\* promise and all, and the endpoint is unchanged.
C27_AbortLeavesOtherExchanges ==
    [][ lastEvent'.ev = "abort" =>
            /\ baseUrl' = baseUrl
            /\ \A h \in Handles :
                  requests[h].kind \in {"fire", "pull"} =>
                      /\ requests'[h] = requests[h]
                      /\ h # lastEvent'.req
      ]_vars

\* abort() has destroyed the tracked request in the slot while a fire-and-forget
\* or pull exchange was receiving its response; that exchange is still receiving
\* and its caller still waiting.
C27_Witness ==
    /\ lastEvent.ev = "abort" /\ lastEvent.slot # NoRequest /\ lastEvent.kind = "tracked"
    /\ \E h \in Handles :
          /\ requests[h].kind \in {"fire", "pull"}
          /\ requests[h].phase = "receiving" /\ requests[h].promise = "pending"
          /\ ~requests[h].cancelled

----------------------------------------------------------------------------
(* Claims about the ingestion of the pull stream (SpecPull, SpecChunks).    *)

\* The units that have arrived and decode, in stream order.
ParsedArrived == SelectSeq(ArrivedUnits, Decodes)

OneChunk ==
    PullData([buffer |-> << >>, lastStatus |-> "", sink |-> << >>],
             Utf8Encode(StreamText(pull.units, pull.closed)))

\* C29: the progress calls and the result of a pull do not depend on how the byte
\* stream is cut into chunks: a stream that has ended, however it was cut, has
\* made the calls and has the result of the same stream delivered as one chunk.
C29_ChunkingIndependent ==
    pull.phase = "ended" =>
        /\ pull.sink = OneChunk.sink
        /\ pull.lastStatus = OneChunk.lastStatus
        /\ pull.outcome.status = (IF OneChunk.lastStatus = "error" THEN "error" ELSE "ok")

\* The units that are followed by a blank line.
Terminated ==
    IF pull.closed THEN pull.units ELSE SubSeq(pull.units, 1, Len(pull.units) - 1)

\* C30: at stream end what the buffer holds, a final unit with no blank line after
\* it, is discarded undecoded: it is still in the buffer, the last known status
\* and the progress calls are those of the units followed by a blank line, and so
\* is the result.
C30_RemainderDiscardedAtEnd ==
    pull.phase = "ended" =>
        /\ pull.buffer = (IF pull.closed THEN << >>
                          ELSE UnitText(pull.units[Len(pull.units)]))
        /\ pull.lastStatus = RefStatus(Terminated)
        /\ pull.sink = RefSink(Terminated)
        /\ pull.promise = "resolved"
        /\ pull.outcome.status = (IF RefStatus(Terminated) = "error" THEN "error" ELSE "ok")

\* A stream ended after a final unit `pct 100 success` with no blank line after
\* it: the unit is in the buffer, no call was made for it and the result is that
\* of the unit before it, status error.
C30_Witness ==
    /\ pull.phase = "ended" /\ ~pull.closed
    /\ pull.units = <<EventUnit(FALSE, "", TRUE, "error"), EventUnit(TRUE, "100", TRUE, "success")>>
    /\ pull.buffer = UnitText(EventUnit(TRUE, "100", TRUE, "success"))
    /\ pull.lastStatus = "error" /\ pull.sink = << >>
    /\ pull.outcome.status = "error"

----------------------------------------------------------------------------
(* Claims about overlapping healthCheck calls (SpecMonitor).               *)

\* C31: whenever a healthCheck call returns true, the endpoint names the port whose
\* probe answered ok in that call: the port of its first probe, or the discovered
\* port, also when another call has replaced the endpoint in the meantime.
C31_TrueMeansEndpointAnsweredOk ==
    (lastEvent.ev = "probe" /\ lastEvent.ret = "true") =>
        RequestPort(baseUrl) = lastEvent.port

\* C37: in every call the discovery loop skips the port its own first probe went
\* to and scans the nine ports above that one, also when another call has
\* replaced the endpoint between the first probe and the scan.
C37_ScanIsAboveOwnFirstProbe ==
    \A k \in Calls :
        calls[k].pc = "scan" =>
            /\ calls[k].basePort = calls[k].first
            /\ calls[k].target \in (calls[k].first + 1)..(calls[k].first + SCAN_SPAN - 1)

\* C35: the endpoint's scheme and host never change and its port never decreases:
\* a step that changes the endpoint is a discovery that moves the port up by 1 to
\* 9 from the endpoint current at that step.
C35_EndpointPortOnlyRises ==
    [][ /\ baseUrl'.protocol = baseUrl.protocol
        /\ baseUrl'.hostname = baseUrl.hostname
        /\ baseUrl' # baseUrl =>
              /\ lastEvent'.ev = "probe" /\ lastEvent'.phase = "scan"
              /\ lastEvent'.info = "ok"
              /\ baseUrl'.port \in (BasePort(baseUrl) + 1)..(BasePort(baseUrl) + SCAN_SPAN - 1)
      ]_vars

\* C32: every healthCheck call ends, provided each probe settles: a call awaits one
\* probe at a time, and the settling of that probe either returns from the call or
\* sends the next probe, to a port the call has not probed before; a call sends at
\* most ten probes, its first and at most nine of discovery.
C32_CallProbesAtMostTenPortsOnce ==
    [][ \A k \in Calls :
          (calls[k].pc # "idle" /\ calls'[k] # calls[k]) =>
              /\ lastEvent'.ev = "probe" /\ lastEvent'.id = k
              /\ \/ calls'[k].pc = "idle" /\ lastEvent'.ret \in {"true", "false"}
                 \/ /\ calls'[k].pc = "scan" /\ lastEvent'.ret = "none"
                    /\ calls'[k].probed = Append(calls[k].probed, calls'[k].target)
                    /\ calls'[k].target \notin Asked(calls[k])
                    /\ Len(calls'[k].probed) <= SCAN_SPAN - 1
      ]_vars

\* C33: while the monitor is Online its failure counter is 0, 1 or 2; a processed
\* success leaves the counter at 0, Online or Offline before; the counter is 0 in
\* the state in which the monitor has become Online.
C33_OnlineBoundsFailures ==
    /\ wasOnline => failCount \in 0..(MAX_FAILS - 1)
    /\ (MonitorProcessed /\ lastEvent.ret = "true") => (failCount = 0 /\ wasOnline)
    /\ (MonitorProcessed /\ ~lastEvent.was /\ wasOnline) =>
          (failCount = 0 /\ lastEvent.ret = "true")

\* The monitor is Online with two failures counted, the second one just processed.
C33_Witness ==
    /\ MonitorProcessed /\ lastEvent.ret = "false" /\ lastEvent.was
    /\ wasOnline /\ failCount = MAX_FAILS - 1

----------------------------------------------------------------------------
(* Claims about the slot's content (Spec).                                 *)

\* C34: a slot that is not empty holds the tracked request started last, and that
\* request has not settled: the slot changes only by being emptied or by a
\* sendVibe storing its new request, every sendVibe stores its request, and the
\* request in the slot is never a resolved, rejected, timed-out or aborted one.
C34_SlotHoldsLatestUnsettled ==
    [][ /\ vibeRequest' # NoRequest =>
              /\ requests'[vibeRequest'].kind = "tracked"
              /\ requests'[vibeRequest'].promise = "pending"
              /\ ~requests'[vibeRequest'].cancelled
              /\ ~requests'[vibeRequest'].errQueued
        /\ vibeRequest' # vibeRequest =>
              \/ vibeRequest' = NoRequest
              \/ lastEvent'.ev = "sendVibe" /\ vibeRequest' = lastEvent'.req
        /\ lastEvent'.ev = "sendVibe" =>
              (vibeRequest' = lastEvent'.req /\ requests[lastEvent'.req].kind = "free")
      ]_vars

\* The older of two tracked requests has timed out; the slot still holds the newer
\* one, which is in flight and pending.
C34_Witness ==
    /\ lastEvent.ev = "timeout" /\ lastEvent.kind = "tracked" /\ lastEvent.ret = "rejected"
    /\ vibeRequest \notin {NoRequest, lastEvent.req}
    /\ requests[vibeRequest].kind = "tracked"
    /\ requests[vibeRequest].promise = "pending"
    /\ requests[vibeRequest].phase \in {"sent", "receiving"}

----------------------------------------------------------------------------
(* Claims about overlapping periodic checks (SpecOverlap).                 *)

\* C36: results are applied in the order the checks were started: when the later
\* of two overlapping checks has just returned true, a false result of the earlier
\* one changes neither the failure counter nor the online flag.
C36_StaleFalseIsIgnored ==
    [][ ( /\ lastEvent.ev = "probe" /\ lastEvent.id = "timer2" /\ lastEvent.ret = "true"
          /\ calls["timer"].pc # "idle"
          /\ lastEvent'.ev = "probe" /\ lastEvent'.id = "timer" /\ lastEvent'.ret = "false" )
        => (failCount' = failCount /\ wasOnline' = wasOnline)
      ]_vars

----------------------------------------------------------------------------
(* Claims about the sidebar's messages (SpecSidebar, SpecDownload).        *)

LoadingOn(g) == Msg("loading", TRUE, g)
LoadingOff(g) == Msg("loading", FALSE, g)

\* C38: a handleVibe call posts loading-on, then exactly one of result and err,
\* then loading-off: a call that has returned has posted exactly these three, and
\* a call still in progress has posted a prefix of them.
C38_LoadingOnOneOutcomeLoadingOff ==
    \A g \in Runs :
        LET log == sidebar.runs[g].posted
            whole == { <<LoadingOn(g), Msg(c, FALSE, g), LoadingOff(g)>> : c \in {"result", "err"} }
        IN /\ sidebar.runs[g].state = "done" => log \in whole
           /\ sidebar.runs[g].state \in {"vibe", "agent", "hung"} =>
                 \E w \in whole, n \in 1..2 : log = SubSeq(w, 1, n)

\* C39: a download's messages are pullStart, the pullProgress messages, then
\* exactly one of pullDone and pullFail: nothing is posted after that one, pullDone
\* is posted only for an outcome of status ok, and a download whose exchange can
\* emit no more events has posted its last message or is about to.
C39_StartProgressThenOneEnd ==
    [][ /\ sidebar.pullEnd # "none" => PullPosted' = PullPosted
        /\ sidebar'.pullEnd = "pullDone" =>
              (pull'.promise = "resolved" /\ pull'.outcome.status = "ok")
        /\ pull'.phase \notin {"sent", "receiving"} =>
              (sidebar'.pullEnd # "none" \/ pull'.promise \in {"resolved", "rejected"})
      ]_vars

\* C40: whenever the webview is unlocked, no sendVibe request of a generation it
\* submitted is in flight, that is, sent or receiving on a connection that is
\* still open (a request that abort() has destroyed is not).
C40_UnlockedMeansNoneInFlight ==
    sidebar.busy = 0 =>
        \A g \in Runs :
            (sidebar.runs[g].origin = "webview" /\ sidebar.runs[g].state = "vibe")
                => requests[sidebar.runs[g].req].phase \notin {"sent", "receiving"}

====
